---- MODULE Spec2Model ----
(***************************************************************************)
(* Model of the Trello time tracker's store operations:                    *)
(*   src/src/utils/storage.js   (timers, manual adjustments, card view)    *)
(*   src/unnamed/part_001       (estimateStorage.js: estimates, history)   *)
(*   src/src/utils/time.js      (getTotalWithActive)                       *)
(*   src/unnamed/part_006       (README: schema of the two timer tables)   *)
(*                                                                         *)
(* Every exported async function is a sequence of steps, one per awaited   *)
(* store call.  A step is the store executing the request together with    *)
(* the synchronous code that runs when the response arrives (up to the     *)
(* next awaited store call).  Client sessions interleave at the steps.     *)
(* The awaited host calls (t.member, t.card, t.board, t.list) touch no     *)
(* store row and are folded into the Begin steps.  All clocks are one      *)
(* global clock `now`.                                                     *)
(***************************************************************************)
EXTENDS Integers, Sequences, FiniteSets, Bags, TLC

\* ---------------------------------------------------------------- bounds
NumSessions == 2
NumMembers == 1
MaxRows == 3
MaxTicks == 1
MaxEstTicks == 9
MaxFetches == 12

\* ------------------------------------------------------------- constants
GRACE_PERIOD_MS == 2 * 60 * 1000
\* granularity of the model clock: a quarter of the grace period (30 s)
TickMs == GRACE_PERIOD_MS \div 4
HourMs == 60 * 60 * 1000
MinuteMs == 60 * 1000
SecondMs == 1000

Sessions == 1..NumSessions
\* the functions address rows by (card_id, member_id): the members of one
\* card stand for any set of pairs
Cards == {1}
Members == 1..NumMembers
\* the cards of the board, for the functions that address a whole card:
\* a card and another one
BoardCards == {1, 2}
\* the members the board's estimate report knows: a member and another one
BoardMembers == {1, 2}
\* labels of the cards as t.cards() returns them (lbl.name || lbl.color):
\* a card with two labels and one without, or both cards with one label
LabelChoices ==
    {[c \in BoardCards |-> IF c = 1 THEN {"bug", "ui"} ELSE {}],
     [c \in BoardCards |-> {"bug"}]}
\* deltaMs arguments of adjustTime (positive adds, negative subtracts)
Deltas == {TickMs, 0 - TickMs}
\* the clock starts at a positive epoch time, so no timestamp is 0 and 0
\* stands for JavaScript's null / undefined wherever a timestamp is optional
Epoch == TickMs
\* dateStr argument of adjustTime: 0 stands for "no date given", any other
\* value is the instant new Date(dateStr + 'T12:00:00') of that date
DateNoons == {0, Epoch + TickMs}
\* estimatedMs arguments of setEstimate
EstValues == {HourMs, 2 * HourMs, 3 * HourMs}
\* the (card, member) pairs whose estimate is set: setEstimate reads and
\* writes the rows of its own pair only, one pair shows all it does
EstPairs == {<<1, 1>>}

VARIABLES
    active_timers,    \* table active_timers: set of rows
    time_entries,     \* table time_entries: bag of rows (without their id)
    time_estimates,   \* table time_estimates: set of rows
    estimate_history, \* table estimate_history: bag of rows (without id)
    now,              \* the clock, in ms
    nextId,           \* next id of active_timers and time_estimates rows
    sess,             \* per client session: position and locals of its call
    snap,             \* observer: the tables when the last call began
    last,             \* observer: the calls that returned, see Return
    view,             \* a view of a client: its polling effect
    ledger            \* observer: the time a pair ran and the deltas passed

vars == <<active_timers, time_entries, time_estimates, estimate_history,
          now, nextId, sess, snap, last, view, ledger>>

\* ------------------------------------------------------------ row access
\* .eq('card_id', ...).eq('member_id', ...) on a table kept as a set
RowsOf(table, c, m) == {r \in table : r.card_id = c /\ r.member_id = m}

HasRow(table, c, m) == RowsOf(table, c, m) # {}

\* the same on a table kept as a bag: the bag of the matching rows
BagRowsOf(table, c, m) ==
    LET D == {r \in BagToSet(table) : r.card_id = c /\ r.member_id = m}
    IN [r \in D |-> table[r]]

\* .maybeSingle(): the row when there is exactly one, null (id 0) otherwise
NoRow == [id |-> 0, started_at |-> 0, estimated_ms |-> 0, updated_at |-> 0]

MaybeSingle(rows) ==
    IF Cardinality(rows) = 1 THEN CHOOSE r \in rows : TRUE ELSE NoRow

\* sum of duration_ms over the rows of a bag
RECURSIVE SumDur(_)
SumDur(rows) ==
    IF BagToSet(rows) = {} THEN 0
    ELSE LET r == CHOOSE x \in BagToSet(rows) : TRUE
         IN r.duration_ms * rows[r] +
            SumDur([x \in BagToSet(rows) \ {r} |-> rows[x]])

\* rows in the store that took one of the bounded number of rows
Used == (nextId - 1) + BagCardinality(time_entries)
            + BagCardinality(estimate_history)

\* a variant of the table without its unique constraint
UniqueViolationOff(c, m) == FALSE

\* unique(card_id, member_id) of table active_timers: an insert for a pair
\* that already has a row is rejected

UniqueViolation(c, m) == HasRow(active_timers, c, m)

\* a variant of table time_estimates without its unique constraint
EstUniqueViolationOff(c, m) == FALSE

\* unique(card_id, member_id) of table time_estimates ("one row per member
\* per card"): an insert for a pair that already has a row is rejected
EstUniqueViolation(c, m) == HasRow(time_estimates, c, m)

\* a variant of the foreign key without ON DELETE CASCADE
CascadeHistoryOff(history, estimates) == history

\* estimate_history.estimate_id references time_estimates(id) ON DELETE
\* CASCADE: the history rows left once the estimates are those given
CascadeHistory(history, estimates) ==
    LET keep == {h \in BagToSet(history) :
                    \E e \in estimates : e.id = h.estimate_id}
    IN [h \in keep |-> history[h]]

\* ------------------------------------------------------------ read views
\* getCardTimeData: { [memberId]: { totalMs, activeStart } }; a member
\* without entry and without timer has no key (here: present = FALSE);
\* activeStart null is 0
CardTimeData(entries, actives, c) ==
    [m \in BoardMembers |->
        [present |-> BagRowsOf(entries, c, m) # EmptyBag \/ HasRow(actives, c, m),
         totalMs |-> SumDur(BagRowsOf(entries, c, m)),
         activeStart |-> IF HasRow(actives, c, m)
                         THEN (CHOOSE r \in RowsOf(actives, c, m) : TRUE).started_at
                         ELSE 0]]

\* getTotalWithActive, with Date.now() as parameter; `if (activeStart)` is
\* JavaScript truthiness: false for null and for 0
GetTotalWithActive(memberData, clock) ==
    IF ~memberData.present THEN 0
    ELSE IF memberData.activeStart # 0
         THEN memberData.totalMs + (clock - memberData.activeStart)
         ELSE memberData.totalMs

\* sum of ms over a set of records
RECURSIVE SumMs(_)
SumMs(S) ==
    IF S = {} THEN 0
    ELSE LET r == CHOOSE x \in S : TRUE
         IN r.ms + SumMs(S \ {r})

\* a variant whose lower bound is exclusive
FilterEntriesAfter(entries, from, to) ==
    LET D == {r \in BagToSet(entries) :
                 /\ from # 0 => r.started_at > from
                 /\ to # 0 => r.started_at <= to}
    IN [r \in D |-> entries[r]]

\* .gte('started_at', filters.from) when filters.from is given,
\* .lte('started_at', filters.to) when filters.to is given
FilterEntries(entries, from, to) ==
    LET D == {r \in BagToSet(entries) :
                 /\ from # 0 => r.started_at >= from
                 /\ to # 0 => r.started_at <= to}
    IN [r \in D |-> entries[r]]

\* getBoardTimeReport, cardMap: a card for every card_id of the fetched
\* entries and active timers, with the live labels and, per member,
\* totalMs and activeStart
BuildTimeReport(entries, actives, labels) ==
    [c \in {c \in BoardCards :
                \/ \E r \in BagToSet(entries) : r.card_id = c
                \/ \E r \in actives : r.card_id = c} |->
        [cardId |-> c, labels |-> labels[c],
         timeData |-> CardTimeData(entries, actives, c)]]

\* ReportApp, aggregated: what each member of each card contributes, ms
\* = getTotalWithActive(mData); `if (ms === 0) continue`
TimeContributions(reportData, clock) ==
    {x \in {[card |-> c, member |-> m,
             ms |-> GetTotalWithActive(reportData[c].timeData[m], clock)] :
                c \in DOMAIN reportData, m \in BoardMembers} : x.ms # 0}

\* a variant that counts a card under its first label only
LabelKeysFirst(labels) ==
    IF labels = {} THEN {"Uten label"}
    ELSE {CHOOSE l \in labels : TRUE}

\* the keys a card contributes to when grouping by label: lbl.name ||
\* lbl.color of each label, "Uten label" for a card without label
LabelKeys(labels) == IF labels = {} THEN {"Uten label"} ELSE labels

\* ReportApp, aggregated: the rows (key -> totalMs) of a grouping
TimeRows(reportData, groupBy, clock) ==
    LET contrib == TimeContributions(reportData, clock)
        KeysOf(x) == IF groupBy = "card" THEN {x.card}
                     ELSE IF groupBy = "person" THEN {x.member}
                     ELSE LabelKeys(reportData[x.card].labels)
        keys == UNION {KeysOf(x) : x \in contrib}
    IN [k \in keys |-> SumMs({x \in contrib : k \in KeysOf(x)})]

GroupBys == {"card", "person", "label"}

\* null
Null == 0 - 1

\* originalMap[estimate_id] ?? null: the history of the estimate is read
\* by ascending changed_at and `if (!originalMap[id]) originalMap[id] =
\* h.previous_ms` keeps the first previous_ms that is not 0 (a 0 is
\* overwritten by the next row)
OriginalMs(history, id) ==
    LET rows == {h \in BagToSet(history) : h.estimate_id = id}
        nz == {h \in rows : h.previous_ms # 0}
    IN IF rows = {} THEN Null
       ELSE IF nz = {} THEN 0
       ELSE (CHOOSE h \in nz :
                \A g \in nz : h.changed_at <= g.changed_at).previous_ms

\* getBoardEstimateReport, members of a card: estimatedMs and originalMs
\* from the estimate, actualMs the sum of duration_ms, activeStart
EstimateMembers(estimates, history, entries, actives, c) ==
    [m \in BoardMembers |->
        LET est == RowsOf(estimates, c, m)
            e == CHOOSE x \in est : TRUE
        IN [present |-> est # {} \/ BagRowsOf(entries, c, m) # EmptyBag
                           \/ HasRow(actives, c, m),
            estimatedMs |-> IF est = {} THEN 0 ELSE e.estimated_ms,
            originalMs |-> IF est = {} THEN Null ELSE OriginalMs(history, e.id),
            actualMs |-> SumDur(BagRowsOf(entries, c, m)),
            activeStart |-> IF HasRow(actives, c, m)
                            THEN (CHOOSE r \in RowsOf(actives, c, m) : TRUE).started_at
                            ELSE 0]]

\* a variant of getBoardEstimateReport that drops the cards without time
BuildEstimateReportTimed(estimates, history, entries, actives, labels) ==
    [c \in {c \in BoardCards :
                /\ \E m \in BoardMembers :
                      EstimateMembers(estimates, history, entries, actives, c)[m]
                          .estimatedMs > 0
                /\ \/ \E r \in BagToSet(entries) : r.card_id = c
                   \/ \E r \in actives : r.card_id = c} |->
        [cardId |-> c, labels |-> labels[c],
         members |-> EstimateMembers(estimates, history, entries, actives, c)]]

\* a variant that returns every card with an estimate row
BuildEstimateReportAny(estimates, history, entries, actives, labels) ==
    [c \in {c \in BoardCards : \E e \in estimates : e.card_id = c} |->
        [cardId |-> c, labels |-> labels[c],
         members |-> EstimateMembers(estimates, history, entries, actives, c)]]

\* getBoardEstimateReport: the cards with at least one member whose
\* estimatedMs > 0
BuildEstimateReport(estimates, history, entries, actives, labels) ==
    [c \in {c \in BoardCards :
                \E m \in BoardMembers :
                    EstimateMembers(estimates, history, entries, actives, c)[m]
                        .estimatedMs > 0} |->
        [cardId |-> c, labels |-> labels[c],
         members |-> EstimateMembers(estimates, history, entries, actives, c)]]

\* a variant of getActualMs that leaves the running timer out
GetActualMsStored(member, clock) == member.actualMs

\* EstimateApp, getActualMs
GetActualMs(member, clock) ==
    IF member.activeStart # 0
    THEN member.actualMs + (clock - member.activeStart)
    ELSE member.actualMs

\* EstimateApp, getRemainingMs: Math.max(0, estimatedMs - actual)
GetRemainingMs(member, clock) ==
    LET d == member.estimatedMs - GetActualMs(member, clock)
    IN IF d > 0 THEN d ELSE 0

\* EstimateApp, deviationMs
DeviationMs(estimated, actual) == actual - estimated

Abs(x) == IF x < 0 THEN 0 - x ELSE x

\* EstimateApp, deviationPct: null when !estimated, else the fraction
\* (actual - estimated) * 100 / estimated, kept as numerator and denominator
DeviationPct(estimated, actual) ==
    IF estimated = 0 THEN [null |-> TRUE, num |-> 0, den |-> 1]
    ELSE [null |-> FALSE, num |-> (actual - estimated) * 100, den |-> estimated]

\* a variant of accuracyScore without the floor at 0
AccuracyScoreUnclamped(estimated, actual) ==
    IF estimated = 0 THEN [null |-> TRUE, num |-> 0, den |-> 1]
    ELSE [null |-> FALSE,
          num |-> 100 * Abs(estimated) - 100 * Abs(actual - estimated),
          den |-> Abs(estimated)]

\* EstimateApp, accuracyScore: null when !estimated, else
\* Math.max(0, 100 - Math.abs(actual / estimated - 1) * 100), kept as a
\* fraction with a positive denominator
AccuracyScore(estimated, actual) ==
    IF estimated = 0 THEN [null |-> TRUE, num |-> 0, den |-> 1]
    ELSE LET n == 100 * Abs(estimated) - 100 * Abs(actual - estimated)
         IN [null |-> FALSE, num |-> IF n > 0 THEN n ELSE 0,
             den |-> Abs(estimated)]

\* EstimateApp, aggregated: what each member of each card contributes;
\* `if (!m.estimatedMs && !getActualMs(m)) continue`
EstContributions(reportData, clock) ==
    {x \in {[card |-> c, member |-> m,
             estimated |-> reportData[c].members[m].estimatedMs,
             actual |-> GetActualMs(reportData[c].members[m], clock),
             remaining |-> GetRemainingMs(reportData[c].members[m], clock),
             original |-> reportData[c].members[m].originalMs] :
                c \in DOMAIN reportData, m \in BoardMembers} :
        x.estimated # 0 \/ x.actual # 0}

\* existing.remainingMs += remaining: the sum of the members' remainingMs
RowRemaining(contrib) ==
    SumMs({[card |-> x.card, member |-> x.member, ms |-> x.remaining] : x \in contrib})

RECURSIVE RowOriginalNullAsZero(_)
RECURSIVE RowOriginal(_)

\* a variant that counts a member without originalMs as 0
RowOriginalNullAsZero(contrib) ==
    IF contrib = {} THEN Null
    ELSE LET x == CHOOSE y \in contrib : TRUE
             existing == RowOriginalNullAsZero(contrib \ {x})
         IN (IF existing = Null THEN 0 ELSE existing) +
            (IF x.original = Null THEN 0 ELSE x.original)

\* EstimateApp, aggregated: the row starts with originalMs: null, and for
\* each member `if (originalMs != null) existing.originalMs =
\* (existing.originalMs || 0) + originalMs`
RowOriginal(contrib) ==
    IF contrib = {} THEN Null
    ELSE LET x == CHOOSE y \in contrib : TRUE
             existing == RowOriginal(contrib \ {x})
         IN IF x.original # Null
            THEN (IF existing = Null THEN 0 ELSE existing) + x.original
            ELSE existing

\* EstimateApp, aggregated: one row of a grouping from its contributions
EstRow(contrib) ==
    LET Sum(F(_)) == SumMs({[card |-> x.card, member |-> x.member,
                             ms |-> F(x)] : x \in contrib})
        Est(x) == x.estimated
        Act(x) == x.actual
        Orig(x) == x.original
        estimatedMs == Sum(Est)
        actualMs == Sum(Act)
    IN [estimatedMs |-> estimatedMs,
        actualMs |-> actualMs,
        remainingMs |-> RowRemaining(contrib),
        originalMs |-> RowOriginal(contrib),
        deviationMs |-> DeviationMs(estimatedMs, actualMs),
        deviationPct |-> DeviationPct(estimatedMs, actualMs),
        accuracy |-> AccuracyScore(estimatedMs, actualMs)]

\* a variant whose rows by person keep a member's last contribution
\* instead of accumulating (map.set of a fresh row)
EstRowsOverwriting(reportData, groupBy, clock) ==
    LET contrib == EstContributions(reportData, clock)
        KeysOf(x) == IF groupBy = "card" THEN {x.card}
                     ELSE IF groupBy = "person" THEN {x.member}
                     ELSE LabelKeys(reportData[x.card].labels)
        keys == UNION {KeysOf(x) : x \in contrib}
    IN [k \in keys |->
          IF groupBy = "person"
          THEN EstRow({CHOOSE x \in contrib : k \in KeysOf(x)})
          ELSE EstRow({x \in contrib : k \in KeysOf(x)})]

\* EstimateApp, aggregated: the rows (key -> row) of a grouping
EstRows(reportData, groupBy, clock) ==
    LET contrib == EstContributions(reportData, clock)
        KeysOf(x) == IF groupBy = "card" THEN {x.card}
                     ELSE IF groupBy = "person" THEN {x.member}
                     ELSE LabelKeys(reportData[x.card].labels)
        keys == UNION {KeysOf(x) : x \in contrib}
    IN [k \in keys |-> EstRow({x \in contrib : k \in KeysOf(x)})]

\* ------------------------------------------------------ duration strings
\* a string is the sequence of its characters
DigitChars == <<"0", "1", "2", "3", "4", "5", "6", "7", "8", "9">>

\* \d
IsDigit(ch) == \E i \in 1..10 : DigitChars[i] = ch

DigitVal(ch) == (CHOOSE i \in 1..10 : DigitChars[i] = ch) - 1

\* \s
IsSpace(ch) == ch = " "

\* parseInt(digits, 10)
RECURSIVE ParseInt(_)
ParseInt(digits) ==
    IF digits = << >> THEN 0
    ELSE ParseInt(SubSeq(digits, 1, Len(digits) - 1)) * 10 +
         DigitVal(digits[Len(digits)])

\* String(n) of a natural number
RECURSIVE ToDigits(_)
ToDigits(n) ==
    IF n < 10 THEN <<DigitChars[n + 1]>>
    ELSE ToDigits(n \div 10) \o <<DigitChars[(n % 10) + 1]>>

\* the end of the run of digits that begins at i
RunEnd(str, i) ==
    CHOOSE j \in i..Len(str) :
        /\ \A k \in i..j : IsDigit(str[k])
        /\ j = Len(str) \/ ~IsDigit(str[j + 1])

\* /(\d+)\s*[units]/ matches at i: digits, any white space, a unit letter
\* (\d+ cannot give a digit back: a digit is neither white space nor a
\* unit letter)
MatchesAt(str, i, units) ==
    /\ IsDigit(str[i])
    /\ \E k \in (RunEnd(str, i) + 1)..Len(str) :
          /\ str[k] \in units
          /\ \A j \in (RunEnd(str, i) + 1)..(k - 1) : IsSpace(str[j])

\* str.match(/(\d+)\s*[units]/i): the group of the leftmost match as a
\* number, 0 without match (`if (hours) ms += ...`)
MatchNumber(str, units) ==
    LET starts == {i \in 1..Len(str) : MatchesAt(str, i, units)}
        first == CHOOSE i \in starts : \A j \in starts : i <= j
    IN IF starts = {} THEN 0
       ELSE ParseInt(SubSeq(str, first, RunEnd(str, first)))

\* time.js, parseDuration
ParseDuration(str) ==
    MatchNumber(str, {"t", "h", "T", "H"}) * 3600000 +
    MatchNumber(str, {"m", "M"}) * 60000 +
    MatchNumber(str, {"s", "S"}) * 1000

\* parts.join(" ")
RECURSIVE JoinParts(_)
JoinParts(parts) ==
    IF parts = << >> THEN << >>
    ELSE IF Len(parts) = 1 THEN parts[1]
    ELSE parts[1] \o <<" ">> \o JoinParts(Tail(parts))

\* a variant of the long form that always writes the three parts
FormatDurationPadded(ms, short) ==
    LET totalSeconds == ms \div 1000
    IN ToDigits(totalSeconds \div 3600) \o <<"t", " ">> \o
       ToDigits((totalSeconds % 3600) \div 60) \o <<"m", " ">> \o
       ToDigits(totalSeconds % 60)

\* time.js, formatDuration
FormatDuration(ms, short) ==
    IF ms = 0 \/ ms < 0
    THEN IF short THEN <<"0", "m">> ELSE <<"0", "m", " ", "0", "s">>
    ELSE LET totalSeconds == ms \div 1000
             hours == totalSeconds \div 3600
             minutes == (totalSeconds % 3600) \div 60
             seconds == totalSeconds % 60
             h == IF hours > 0 THEN <<ToDigits(hours) \o <<"t">>>> ELSE << >>
             m == IF minutes > 0 THEN <<ToDigits(minutes) \o <<"m">>>>
                  ELSE << >>
             parts == h \o m
         IN IF short
            THEN IF hours > 0
                 THEN ToDigits(hours) \o <<"t", " ">> \o ToDigits(minutes)
                      \o <<"m">>
                 ELSE IF minutes > 0 THEN ToDigits(minutes) \o <<"m">>
                 ELSE ToDigits(seconds) \o <<"s">>
            ELSE JoinParts(IF seconds > 0 \/ parts = << >>
                           THEN parts \o <<ToDigits(seconds) \o <<"s">>>>
                           ELSE parts)

\* ------------------------------------------------------------- sessions
\* pc: the awaited store call the session is at; top: the exported
\* function the client called; card, member: t.card('id'), t.member('id');
\* rowId, rowAt, old: id, started_at / updated_at and estimated_ms of the
\* row a select returned; at: the new Date() / Date.now() the call sampled;
\* val: durationMs / deltaMs / estimatedMs; upd: updated_at of the update
\* being built; ret: the value the call will return; obs: how many calls
\* the observer keeps (0: the call is not observed)
\* labels: the live labels of t.cards(); from, to: filters.from / filters.to
\* (0: not given); got, gotEst, gotHist: the rows a report has fetched
Idle == [pc |-> "idle", top |-> "none", card |-> 0, member |-> 0,
         rowId |-> 0, rowAt |-> 0, old |-> 0, at |-> 0, val |-> 0,
         upd |-> 0, ret |-> "none", obs |-> 0,
         labels |-> << >>, from |-> 0, to |-> 0,
         got |-> EmptyBag, gotEst |-> {}, gotHist |-> EmptyBag,
         failed |-> "none", threw |-> FALSE, user |-> 0, sel |-> Null,
         resolved |-> TRUE]

AllIdle == \A s \in Sessions : sess[s].pc = "idle"

InFlight == Cardinality({s \in Sessions : sess[s].pc # "idle"})

Snapshot == [active_timers |-> active_timers, time_entries |-> time_entries,
             time_estimates |-> time_estimates,
             estimate_history |-> estimate_history]

\* a call begins.  obs = 0: calls of different sessions run concurrently;
\* obs > 0: one call is in flight at a time and the observer records it;
\* obs = 4: the call runs concurrently and the observer records it.
\* Every call inserts at most one row, so a call that begins can finish.
\* The sessions are interchangeable: a call begins in the first idle one.
CanCall(s, obs) ==
    /\ sess[s].pc = "idle"
    /\ \A r \in Sessions : r < s => sess[r].pc # "idle"
    /\ obs \in {0, 4} \/ AllIdle

\* a call that may insert a row begins
CanBegin(s, obs) ==
    /\ CanCall(s, obs)
    /\ Used + InFlight < MaxRows

Begin(s, obs, fn, pc, c, m, v) ==
    /\ CanBegin(s, obs)
    /\ sess' = [sess EXCEPT ![s] = [Idle EXCEPT !.pc = pc, !.top = fn,
                    !.card = c, !.member = m, !.val = v, !.obs = obs]]
    /\ snap' = IF obs = 0 THEN snap ELSE Snapshot
    /\ UNCHANGED <<active_timers, time_entries, time_estimates,
                   estimate_history, now, view, ledger, nextId, last>>

\* what the observer records of a call that returns; was: the pair had a
\* row (a timer for the timer functions, an estimate for setEstimate, a
\* history row for removeEstimate and clearCardEstimates) when the call
\* began
CallRecord(loc) ==
    [op |-> loc.top, card |-> loc.card, member |-> loc.member,
     at |-> loc.at, seen |-> loc.rowAt, val |-> loc.val, ret |-> loc.ret,
     from |-> loc.from, to |-> loc.to,
     failed |-> loc.failed, threw |-> loc.threw,
     user |-> loc.user, sel |-> loc.sel, resolved |-> loc.resolved,
     was |-> IF loc.top = "setEstimate"
             THEN HasRow(snap.time_estimates, loc.card, loc.member)
             ELSE IF loc.top = "clearCardTime"
             THEN \/ \E r \in BagToSet(snap.time_entries) : r.card_id = loc.card
                  \/ \E r \in snap.active_timers : r.card_id = loc.card
             ELSE IF loc.top = "removeEstimate"
             THEN \E h \in BagToSet(snap.estimate_history) :
                      h.card_id = loc.card /\ h.member_id = loc.member
             ELSE IF loc.top = "clearCardEstimates"
             THEN \E h \in BagToSet(snap.estimate_history) :
                      h.card_id = loc.card
             ELSE HasRow(snap.active_timers, loc.card, loc.member)]

\* the call of session s returns; loc are its locals at the return.  The
\* observer keeps the last call; with obs = 3 up to three calls in a row
\* on one pair when the first of them created the pair's row, and with
\* obs = 2 a board report that follows a clearCardTime.
Return(s, loc) ==
    /\ sess' = [sess EXCEPT ![s] = Idle]
    /\ last' = IF loc.obs = 0 THEN last
               ELSE IF /\ Len(last) < loc.obs
                       /\ loc.obs < 4
                       /\ Len(last) > 0
                       /\ \/ /\ ~last[1].was
                             /\ last[1].op \in {"startTimer", "setEstimate"}
                             /\ last[1].card = loc.card
                             /\ last[1].member = loc.member
                          \/ /\ last[1].op = "clearCardTime"
                             /\ loc.top \in {"getBoardTimeReport",
                                              "getBoardEstimateReport"}
                    THEN Append(last, CallRecord(loc))
                    ELSE << CallRecord(loc) >>

Init ==
    /\ active_timers = {}
    /\ time_entries = EmptyBag
    /\ time_estimates = {}
    /\ estimate_history = EmptyBag
    /\ now = Epoch
    /\ nextId = 1
    /\ sess = [s \in Sessions |-> Idle]
    /\ snap = [active_timers |-> {}, time_entries |-> EmptyBag,
               time_estimates |-> {}, estimate_history |-> EmptyBag]
    /\ last = << >>
    /\ view = [mounted |-> FALSE, visible |-> TRUE, listening |-> FALSE,
               pollRef |-> "null", live |-> 0, fetches |-> 0,
               event |-> "none", confirmReset |-> 0,
               confirmStop |-> [open |-> FALSE, timerIds |-> {}],
               tickRef |-> "null", ticks |-> 0, hasActive |-> FALSE,
               clock |-> 0]
    /\ ledger = [running |-> 0, deltas |-> 0]

\* time passes
Tick(max) ==
    /\ now < Epoch + max * TickMs
    /\ now' = now + TickMs
    /\ UNCHANGED <<active_timers, time_entries, time_estimates,
                   estimate_history, nextId, sess, snap, last, view, ledger>>

\* ------------------------------------------------------------ startTimer
BeginStart(s, c, m, obs) ==
    Begin(s, obs, "startTimer", "start_select", c, m, 0)

\* a variant that restarts a running timer instead of returning
StartSelectRestart(s) ==
    /\ sess[s].pc = "start_select"
    /\ LET loc == sess[s]
           existing == MaybeSingle(RowsOf(active_timers, loc.card, loc.member))
       IN IF existing.id # 0
          THEN /\ active_timers' = (active_timers \ {existing}) \cup
                     {[existing EXCEPT !.started_at = now]}
               /\ Return(s, [loc EXCEPT !.at = now])
               /\ UNCHANGED <<time_entries, time_estimates, estimate_history,
                              now, view, ledger, nextId, snap>>
          ELSE /\ sess' = [sess EXCEPT ![s].pc = "start_insert", ![s].at = now]
               /\ UNCHANGED <<active_timers, time_entries, time_estimates,
                              estimate_history, now, view, ledger, nextId, snap, last>>

\* select id from active_timers for the pair; `if (existing) return`;
\* otherwise the insert is built with started_at = new Date()
StartSelect(s) ==
    /\ sess[s].pc = "start_select"
    /\ LET loc == sess[s]
           existing == MaybeSingle(RowsOf(active_timers, loc.card, loc.member))
       IN IF existing.id # 0
          THEN /\ Return(s, loc)
               /\ UNCHANGED <<active_timers, time_entries, time_estimates,
                              estimate_history, now, view, ledger, nextId, snap>>
          ELSE /\ sess' = [sess EXCEPT ![s].pc = "start_insert", ![s].at = now]
               /\ UNCHANGED <<active_timers, time_entries, time_estimates,
                              estimate_history, now, view, ledger, nextId, snap, last>>

\* a variant whose insert overwrites the started_at of the pair's row
\* (an upsert on the unique columns)
StartInsertUpsert(s) ==
    /\ sess[s].pc = "start_insert"
    /\ LET loc == sess[s]
       IN /\ IF UniqueViolation(loc.card, loc.member)
             THEN /\ active_timers' =
                        {IF r.card_id = loc.card /\ r.member_id = loc.member
                         THEN [r EXCEPT !.started_at = loc.at] ELSE r :
                            r \in active_timers}
                  /\ UNCHANGED nextId
             ELSE /\ active_timers' = active_timers \cup
                        {[id |-> nextId, card_id |-> loc.card,
                          member_id |-> loc.member, started_at |-> loc.at]}
                  /\ nextId' = nextId + 1
          /\ Return(s, [loc EXCEPT !.failed =
                            IF UniqueViolation(loc.card, loc.member)
                            THEN "duplicate" ELSE "none"])
    /\ UNCHANGED <<time_entries, time_estimates, estimate_history, now, view, ledger, snap>>

\* the store executes the insert; a unique violation is an error, which
\* startTimer logs; it returns either way
StartInsert(s) ==
    /\ sess[s].pc = "start_insert"
    /\ LET loc == sess[s]
       IN /\ IF UniqueViolation(loc.card, loc.member)
             THEN UNCHANGED <<active_timers, nextId>>
             ELSE /\ active_timers' = active_timers \cup
                        {[id |-> nextId, card_id |-> loc.card,
                          member_id |-> loc.member, started_at |-> loc.at]}
                  /\ nextId' = nextId + 1
          /\ Return(s, [loc EXCEPT !.failed =
                            IF UniqueViolation(loc.card, loc.member)
                            THEN "duplicate" ELSE "none"])
    /\ UNCHANGED <<time_entries, time_estimates, estimate_history, now, view, ledger, snap>>

\* the insert fails (store unreachable): error logged, nothing stored
StartInsertFail(s) ==
    /\ sess[s].pc = "start_insert"
    /\ Return(s, [sess[s] EXCEPT !.failed = "insert"])
    /\ UNCHANGED <<active_timers, time_entries, time_estimates,
                   estimate_history, now, view, ledger, nextId, snap>>

\* ------------------------------------------------------------- stopTimer
BeginStop(s, c, m, obs) ==
    Begin(s, obs, "stopTimer", "stop_select", c, m, 0)

\* a variant that computes the duration from the wrong end
StopSelectSwapped(s) ==
    /\ sess[s].pc = "stop_select"
    /\ LET loc == sess[s]
           active == MaybeSingle(RowsOf(active_timers, loc.card, loc.member))
       IN IF active.id = 0
          THEN /\ Return(s, loc)
               /\ UNCHANGED snap
          ELSE /\ sess' = [sess EXCEPT ![s].pc = "stop_insert",
                               ![s].rowId = active.id,
                               ![s].rowAt = active.started_at,
                               ![s].at = now,
                               ![s].val = active.started_at - now]
               /\ UNCHANGED <<snap, last>>
    /\ UNCHANGED <<active_timers, time_entries, time_estimates,
                   estimate_history, now, view, ledger, nextId>>

\* select * from active_timers for the pair; `if (!active) return`;
\* otherwise endedAt = new Date(), durationMs = endedAt - startedAt and
\* the time_entries insert is built
StopSelect(s) ==
    /\ sess[s].pc = "stop_select"
    /\ LET loc == sess[s]
           active == MaybeSingle(RowsOf(active_timers, loc.card, loc.member))
       IN IF active.id = 0
          THEN /\ Return(s, loc)
               /\ UNCHANGED snap
          ELSE /\ sess' = [sess EXCEPT ![s].pc = "stop_insert",
                               ![s].rowId = active.id,
                               ![s].rowAt = active.started_at,
                               ![s].at = now,
                               ![s].val = now - active.started_at]
               /\ UNCHANGED <<snap, last>>
    /\ UNCHANGED <<active_timers, time_entries, time_estimates,
                   estimate_history, now, view, ledger, nextId>>

\* the store inserts the completed entry.  The field timer is not a column:
\* it records the active_timers row the entry was made from (0: none).
StopInsert(s) ==
    /\ sess[s].pc = "stop_insert"
    /\ LET loc == sess[s]
       IN time_entries' = time_entries (+) SetToBag(
              {[card_id |-> loc.card, member_id |-> loc.member,
                started_at |-> loc.rowAt, ended_at |-> loc.at,
                duration_ms |-> loc.val, timer |-> loc.rowId]})
    /\ sess' = [sess EXCEPT ![s].pc = "stop_delete"]
    /\ UNCHANGED <<active_timers, time_estimates, estimate_history, now, view, ledger,
                   nextId, snap, last>>

\* the insert fails: `if (insertError) { console.error(...); return; }`
StopInsertFail(s) ==
    /\ sess[s].pc = "stop_insert"
    /\ Return(s, [sess[s] EXCEPT !.failed = "insert"])
    /\ UNCHANGED <<active_timers, time_entries, time_estimates,
                   estimate_history, now, view, ledger, nextId, snap>>

\* a variant that leaves the timer row in place
StopDeleteNothing(s) ==
    /\ sess[s].pc = "stop_delete"
    /\ Return(s, sess[s])
    /\ UNCHANGED <<active_timers, time_entries, time_estimates,
                   estimate_history, now, view, ledger, nextId, snap>>

\* delete from active_timers where id = active.id; the result is not read
StopDelete(s) ==
    /\ sess[s].pc = "stop_delete"
    /\ active_timers' = {r \in active_timers : r.id # sess[s].rowId}
    /\ Return(s, sess[s])
    /\ UNCHANGED <<time_entries, time_estimates, estimate_history, now, view, ledger,
                   nextId, snap>>

\* the delete fails: its error is not read, stopTimer returns normally
StopDeleteFail(s) ==
    /\ sess[s].pc = "stop_delete"
    /\ Return(s, [sess[s] EXCEPT !.failed = "delete"])
    /\ UNCHANGED <<active_timers, time_entries, time_estimates,
                   estimate_history, now, view, ledger, nextId, snap>>

\* ----------------------------------------------------------- toggleTimer
BeginToggle(s, c, m, obs) ==
    Begin(s, obs, "toggleTimer", "toggle_select", c, m, 0)

\* a variant that returns the state the pair had before the call
ToggleSelectStale(s) ==
    /\ sess[s].pc = "toggle_select"
    /\ LET loc == sess[s]
           active == MaybeSingle(RowsOf(active_timers, loc.card, loc.member))
       IN sess' = [sess EXCEPT
              ![s].pc = IF active.id # 0 THEN "stop_select" ELSE "start_select",
              ![s].ret = IF active.id # 0 THEN "running" ELSE "stopped"]
    /\ UNCHANGED <<active_timers, time_entries, time_estimates,
                   estimate_history, now, view, ledger, nextId, snap, last>>

\* select id from active_timers for the pair; if (active) { await
\* stopTimer(t); return { running: false } } else { await startTimer(t);
\* return { running: true } }
ToggleSelect(s) ==
    /\ sess[s].pc = "toggle_select"
    /\ LET loc == sess[s]
           active == MaybeSingle(RowsOf(active_timers, loc.card, loc.member))
       IN sess' = [sess EXCEPT
              ![s].pc = IF active.id # 0 THEN "stop_select" ELSE "start_select",
              ![s].ret = IF active.id # 0 THEN "stopped" ELSE "running"]
    /\ UNCHANGED <<active_timers, time_entries, time_estimates,
                   estimate_history, now, view, ledger, nextId, snap, last>>

\* ------------------------------------------------------------ adjustTime
\* member = targetMember || t.member(); now = dateStr ? noon of the date :
\* new Date(); the time_entries insert is built
BeginAdjust(s, c, m, deltaMs, dateNoon, obs) ==
    /\ CanBegin(s, obs)
    /\ sess' = [sess EXCEPT ![s] = [Idle EXCEPT !.pc = "adjust_insert",
                    !.top = "adjustTime", !.card = c, !.member = m,
                    !.obs = obs, !.val = deltaMs,
                    !.at = IF dateNoon # 0 THEN dateNoon ELSE now]]
    /\ snap' = IF obs = 0 THEN snap ELSE Snapshot
    /\ UNCHANGED <<active_timers, time_entries, time_estimates,
                   estimate_history, now, view, ledger, nextId, last>>

\* a variant that floors the stored duration at zero
AdjustInsertFloored(s) ==
    /\ sess[s].pc = "adjust_insert"
    /\ LET loc == sess[s]
       IN time_entries' = time_entries (+) SetToBag(
              {[card_id |-> loc.card, member_id |-> loc.member,
                started_at |-> loc.at, ended_at |-> loc.at,
                duration_ms |-> IF loc.val < 0 THEN 0 ELSE loc.val,
                timer |-> 0]})
    /\ Return(s, sess[s])
    /\ UNCHANGED <<active_timers, time_estimates, estimate_history, now, view, ledger,
                   nextId, snap>>

\* the store inserts the entry: started_at = ended_at = now,
\* duration_ms = deltaMs
AdjustInsert(s) ==
    /\ sess[s].pc = "adjust_insert"
    /\ LET loc == sess[s]
       IN time_entries' = time_entries (+) SetToBag(
              {[card_id |-> loc.card, member_id |-> loc.member,
                started_at |-> loc.at, ended_at |-> loc.at,
                duration_ms |-> loc.val, timer |-> 0]})
    /\ Return(s, sess[s])
    /\ UNCHANGED <<active_timers, time_estimates, estimate_history, now, view, ledger,
                   nextId, snap>>

\* the insert fails: error logged, nothing stored
AdjustInsertFail(s) ==
    /\ sess[s].pc = "adjust_insert"
    /\ Return(s, [sess[s] EXCEPT !.failed = "insert"])
    /\ UNCHANGED <<active_timers, time_entries, time_estimates,
                   estimate_history, now, view, ledger, nextId, snap>>

\* --------------------------------------------------------- clearCardTime
\* card = t.card('id')
BeginClearTime(s, c, obs) ==
    /\ CanCall(s, obs)
    /\ sess' = [sess EXCEPT ![s] = [Idle EXCEPT !.pc = "clear_entries",
                    !.top = "clearCardTime", !.card = c, !.obs = obs]]
    /\ snap' = IF obs = 0 THEN snap ELSE Snapshot
    /\ UNCHANGED <<active_timers, time_entries, time_estimates,
                   estimate_history, now, view, ledger, nextId, last>>

\* a variant that deletes the entries of every card
ClearEntriesAll(s) ==
    /\ sess[s].pc = "clear_entries"
    /\ time_entries' = EmptyBag
    /\ sess' = [sess EXCEPT ![s].pc = "clear_timers"]
    /\ UNCHANGED <<active_timers, time_estimates, estimate_history, now, view, ledger,
                   nextId, snap, last>>

\* delete from time_entries where card_id = card.id; the result is not read
ClearEntries(s) ==
    /\ sess[s].pc = "clear_entries"
    /\ LET keep == {r \in BagToSet(time_entries) : r.card_id # sess[s].card}
       IN time_entries' = [r \in keep |-> time_entries[r]]
    /\ sess' = [sess EXCEPT ![s].pc = "clear_timers"]
    /\ UNCHANGED <<active_timers, time_estimates, estimate_history, now, view, ledger,
                   nextId, snap, last>>

\* delete from active_timers where card_id = card.id; the result is not read
ClearTimers(s) ==
    /\ sess[s].pc = "clear_timers"
    /\ active_timers' = {r \in active_timers : r.card_id # sess[s].card}
    /\ Return(s, sess[s])
    /\ UNCHANGED <<time_entries, time_estimates, estimate_history, now, view, ledger,
                   nextId, snap>>

\* ----------------------------------------------------- getBoardTimeReport
\* board = t.board('id'); cardInfoMap from t.cards() and t.lists()
BeginTimeReport(s, labels, from, to, obs) ==
    /\ CanCall(s, obs)
    /\ sess' = [sess EXCEPT ![s] = [Idle EXCEPT !.pc = "trep_entries",
                    !.top = "getBoardTimeReport", !.labels = labels,
                    !.from = from, !.to = to, !.obs = obs]]
    /\ snap' = IF obs = 0 THEN snap ELSE Snapshot
    /\ UNCHANGED <<active_timers, time_entries, time_estimates,
                   estimate_history, now, view, ledger, nextId, last>>

\* select from time_entries for the board, with the date filters
TimeReportEntries(s) ==
    /\ sess[s].pc = "trep_entries"
    /\ sess' = [sess EXCEPT ![s].pc = "trep_actives",
                    ![s].got = FilterEntries(time_entries, sess[s].from,
                                             sess[s].to)]
    /\ UNCHANGED <<active_timers, time_entries, time_estimates,
                   estimate_history, now, view, ledger, nextId, snap, last>>

\* select from active_timers for the board; the cards are built and returned
TimeReportActives(s) ==
    /\ sess[s].pc = "trep_actives"
    /\ Return(s, [sess[s] EXCEPT !.at = now,
                    !.ret = BuildTimeReport(sess[s].got, active_timers,
                                            sess[s].labels)])
    /\ UNCHANGED <<active_timers, time_entries, time_estimates,
                   estimate_history, now, view, ledger, nextId, snap>>

\* ------------------------------------------------- getBoardEstimateReport
\* board = t.board('id'); cardInfoMap from t.cards() and t.lists()
BeginEstReport(s, labels, from, to, obs) ==
    /\ CanCall(s, obs)
    /\ sess' = [sess EXCEPT ![s] = [Idle EXCEPT !.pc = "erep_estimates",
                    !.top = "getBoardEstimateReport", !.labels = labels,
                    !.from = from, !.to = to, !.obs = obs]]
    /\ snap' = IF obs = 0 THEN snap ELSE Snapshot
    /\ UNCHANGED <<active_timers, time_entries, time_estimates,
                   estimate_history, now, view, ledger, nextId, last>>

\* select from time_estimates for the board; the history is fetched only
\* `if (estimateIds.length > 0)`
EstReportEstimates(s) ==
    /\ sess[s].pc = "erep_estimates"
    /\ sess' = [sess EXCEPT ![s].gotEst = time_estimates,
                    ![s].pc = IF time_estimates = {} THEN "erep_entries"
                              ELSE "erep_history"]
    /\ UNCHANGED <<active_timers, time_entries, time_estimates,
                   estimate_history, now, view, ledger, nextId, snap, last>>

\* select from estimate_history .in('estimate_id', estimateIds)
EstReportHistory(s) ==
    /\ sess[s].pc = "erep_history"
    /\ LET ids == {e.id : e \in sess[s].gotEst}
           D == {h \in BagToSet(estimate_history) : h.estimate_id \in ids}
       IN sess' = [sess EXCEPT ![s].pc = "erep_entries",
                       ![s].gotHist = [h \in D |-> estimate_history[h]]]
    /\ UNCHANGED <<active_timers, time_entries, time_estimates,
                   estimate_history, now, view, ledger, nextId, snap, last>>

\* select from time_entries for the board, with the date filters
EstReportEntries(s) ==
    /\ sess[s].pc = "erep_entries"
    /\ sess' = [sess EXCEPT ![s].pc = "erep_actives",
                    ![s].got = FilterEntries(time_entries, sess[s].from,
                                             sess[s].to)]
    /\ UNCHANGED <<active_timers, time_entries, time_estimates,
                   estimate_history, now, view, ledger, nextId, snap, last>>

\* select from active_timers for the board; the cards are built, filtered
\* and returned
EstReportActives(s) ==
    /\ sess[s].pc = "erep_actives"
    /\ Return(s, [sess[s] EXCEPT !.at = now,
                    !.ret = BuildEstimateReport(sess[s].gotEst,
                                sess[s].gotHist, sess[s].got, active_timers,
                                sess[s].labels)])
    /\ UNCHANGED <<active_timers, time_entries, time_estimates,
                   estimate_history, now, view, ledger, nextId, snap>>

\* ------------------------------------------------- the reports' fetches fail
\* failed: the fetch of the call that returned an error; threw: the call
\* threw
\* getBoardTimeReport: the select from time_entries returns an error;
\* `if (error) throw error`
TimeReportEntriesFail(s) ==
    /\ sess[s].pc = "trep_entries"
    /\ Return(s, [sess[s] EXCEPT !.at = now, !.failed = "entries", !.threw = TRUE])
    /\ UNCHANGED <<active_timers, time_entries, time_estimates,
                   estimate_history, now, view, ledger, nextId, snap>>

\* getBoardTimeReport: the select from active_timers returns an error;
\* `const { data: actives }` does not read it, `actives || []` is empty
\* and the cards are built and returned
TimeReportActivesFail(s) ==
    /\ sess[s].pc = "trep_actives"
    /\ Return(s, [sess[s] EXCEPT !.at = now, !.failed = "actives",
                    !.ret = BuildTimeReport(sess[s].got, {}, sess[s].labels)])
    /\ UNCHANGED <<active_timers, time_entries, time_estimates,
                   estimate_history, now, view, ledger, nextId, snap>>

\* getBoardEstimateReport: the select from time_estimates returns an
\* error; `if (estError) throw estError`
EstReportEstimatesFail(s) ==
    /\ sess[s].pc = "erep_estimates"
    /\ Return(s, [sess[s] EXCEPT !.at = now, !.failed = "estimates", !.threw = TRUE])
    /\ UNCHANGED <<active_timers, time_entries, time_estimates,
                   estimate_history, now, view, ledger, nextId, snap>>

\* getBoardEstimateReport: the select from estimate_history returns an
\* error; `const { data: history }` does not read it, `history || []` is
\* empty and the report goes on
EstReportHistoryFail(s) ==
    /\ sess[s].pc = "erep_history"
    /\ sess' = [sess EXCEPT ![s].pc = "erep_entries",
                    ![s].gotHist = EmptyBag, ![s].failed = "history"]
    /\ UNCHANGED <<active_timers, time_entries, time_estimates,
                   estimate_history, now, view, ledger, nextId, snap, last>>

\* getBoardEstimateReport: the select from time_entries returns an error;
\* `if (entError) throw entError`
EstReportEntriesFail(s) ==
    /\ sess[s].pc = "erep_entries"
    /\ Return(s, [sess[s] EXCEPT !.at = now, !.failed = "entries", !.threw = TRUE])
    /\ UNCHANGED <<active_timers, time_entries, time_estimates,
                   estimate_history, now, view, ledger, nextId, snap>>

\* getBoardEstimateReport: the select from active_timers returns an
\* error; `const { data: actives }` does not read it, `actives || []` is
\* empty and the cards are built, filtered and returned
EstReportActivesFail(s) ==
    /\ sess[s].pc = "erep_actives"
    /\ Return(s, [sess[s] EXCEPT !.at = now, !.failed = "actives",
                    !.ret = BuildEstimateReport(sess[s].gotEst,
                                sess[s].gotHist, sess[s].got, {},
                                sess[s].labels)])
    /\ UNCHANGED <<active_timers, time_entries, time_estimates,
                   estimate_history, now, view, ledger, nextId, snap>>

\* ReportApp / EstimateApp, loadData: the catch branch sets the error
\* state, otherwise the result is shown
LoadError(call) == call.threw

\* between two calls time passes
TickIdle(max) == AllIdle /\ Tick(max)

\* between two calls ten minutes pass
TenMinutes(max) ==
    /\ AllIdle
    /\ now < Epoch + max * 10 * MinuteMs
    /\ now' = now + 10 * MinuteMs
    /\ UNCHANGED <<active_timers, time_entries, time_estimates,
                   estimate_history, nextId, sess, snap, last, view, ledger>>

\* -------------------------------------------------------- getCardEstimates
\* card = t.card('id')
BeginCardEstimates(s, c, obs) ==
    /\ CanCall(s, obs)
    /\ sess' = [sess EXCEPT ![s] = [Idle EXCEPT !.pc = "cest_estimates",
                    !.top = "getCardEstimates", !.card = c, !.obs = obs]]
    /\ snap' = IF obs = 0 THEN snap ELSE Snapshot
    /\ UNCHANGED <<active_timers, time_entries, time_estimates,
                   estimate_history, now, view, ledger, nextId, last>>

\* { [memberId]: { estimatedMs, originalMs, updatedAt } }; a member
\* without estimate has no key (here: present = FALSE)
CardEstimates(estimates, history, c) ==
    [m \in Members |->
        LET est == RowsOf(estimates, c, m)
            e == CHOOSE x \in est : TRUE
        IN IF est = {}
           THEN [present |-> FALSE, estimatedMs |-> 0, originalMs |-> Null,
                 updatedAt |-> 0]
           ELSE [present |-> TRUE, estimatedMs |-> e.estimated_ms,
                 originalMs |-> OriginalMs(history, e.id),
                 updatedAt |-> e.updated_at]]

\* select from time_estimates where card_id = card.id; without estimates
\* the empty result is returned
CardEstEstimates(s) ==
    /\ sess[s].pc = "cest_estimates"
    /\ LET est == {e \in time_estimates : e.card_id = sess[s].card}
       IN IF est = {}
          THEN /\ Return(s, [sess[s] EXCEPT !.at = now,
                       !.ret = CardEstimates({}, EmptyBag, sess[s].card)])
               /\ UNCHANGED <<active_timers, time_entries, time_estimates,
                              estimate_history, now, view, ledger, nextId, snap>>
          ELSE /\ sess' = [sess EXCEPT ![s].gotEst = est,
                               ![s].pc = "cest_history"]
               /\ UNCHANGED <<active_timers, time_entries, time_estimates,
                              estimate_history, now, view, ledger, nextId, snap, last>>

\* select from estimate_history .in('estimate_id', estimateIds), ordered
\* by changed_at; the result is built and returned
CardEstHistory(s) ==
    /\ sess[s].pc = "cest_history"
    /\ LET ids == {e.id : e \in sess[s].gotEst}
           D == {h \in BagToSet(estimate_history) : h.estimate_id \in ids}
       IN Return(s, [sess[s] EXCEPT !.at = now,
                       !.ret = CardEstimates(sess[s].gotEst,
                                   [h \in D |-> estimate_history[h]],
                                   sess[s].card)])
    /\ UNCHANGED <<active_timers, time_entries, time_estimates,
                   estimate_history, now, view, ledger, nextId, snap>>

\* between two calls time passes by a whole grace period
Wait(max) ==
    /\ AllIdle
    /\ now < Epoch + max * GRACE_PERIOD_MS
    /\ now' = now + GRACE_PERIOD_MS
    /\ UNCHANGED <<active_timers, time_entries, time_estimates,
                   estimate_history, nextId, sess, snap, last, view, ledger>>

\* ----------------------------------------------------------- setEstimate
\* a variant that counts the instant the grace period ends as inside it
WithinGraceInclusive(clock, lastUpdate) == clock - lastUpdate <= GRACE_PERIOD_MS

\* withinGrace = now - lastUpdate < GRACE_PERIOD_MS
WithinGrace(clock, lastUpdate) == clock - lastUpdate < GRACE_PERIOD_MS

\* member = targetMember || t.member()
BeginSetEstimate(s, c, m, estimatedMs, obs) ==
    Begin(s, obs, "setEstimate", "est_select", c, m, estimatedMs)

\* select id, estimated_ms, updated_at from time_estimates for the pair.
\* No row: the insert is built.  A row: when the value differs and
\* Date.now() is outside the grace period the estimate_history insert is
\* built; otherwise the update is built, with updated_at = new Date()
EstSelect(s) ==
    /\ sess[s].pc = "est_select"
    /\ LET loc == sess[s]
           existing == MaybeSingle(RowsOf(time_estimates, loc.card, loc.member))
       IN sess' = [sess EXCEPT ![s] =
              IF existing.id = 0
              THEN [loc EXCEPT !.pc = "est_insert"]
              ELSE [loc EXCEPT
                      !.pc = IF /\ existing.estimated_ms # loc.val
                                /\ ~WithinGrace(now, existing.updated_at)
                             THEN "est_history" ELSE "est_update",
                      !.rowId = existing.id,
                      !.rowAt = existing.updated_at,
                      !.old = existing.estimated_ms,
                      !.at = now, !.upd = now]]
    /\ UNCHANGED <<active_timers, time_entries, time_estimates,
                   estimate_history, now, view, ledger, nextId, snap, last>>

\* the store inserts the history row (estimate_id is a foreign key: the
\* insert is rejected when the estimate is gone; the result is not read);
\* changed_at is not sent, the store sets it.  Then the update is built,
\* with updated_at = new Date()
EstHistory(s) ==
    /\ sess[s].pc = "est_history"
    /\ LET loc == sess[s]
       IN estimate_history' =
              IF \E e \in time_estimates : e.id = loc.rowId
              THEN estimate_history (+) SetToBag(
                     {[estimate_id |-> loc.rowId, card_id |-> loc.card,
                       member_id |-> loc.member, previous_ms |-> loc.old,
                       new_ms |-> loc.val, changed_at |-> now]})
              ELSE estimate_history
    /\ sess' = [sess EXCEPT ![s].pc = "est_update", ![s].upd = now]
    /\ UNCHANGED <<active_timers, time_entries, time_estimates, now, view, ledger, nextId,
                   snap, last>>

\* update time_estimates set estimated_ms, updated_at where id = existing.id
EstUpdate(s) ==
    /\ sess[s].pc = "est_update"
    /\ LET loc == sess[s]
       IN time_estimates' =
              {IF e.id = loc.rowId
               THEN [e EXCEPT !.estimated_ms = loc.val, !.updated_at = loc.upd]
               ELSE e : e \in time_estimates}
    /\ Return(s, sess[s])
    /\ UNCHANGED <<active_timers, time_entries, estimate_history, now, view, ledger,
                   nextId, snap>>

\* insert into time_estimates; created_at and updated_at are not sent, the
\* store sets them.  A unique violation is an error, which setEstimate
\* logs; it returns either way
EstInsert(s) ==
    /\ sess[s].pc = "est_insert"
    /\ LET loc == sess[s]
       IN IF EstUniqueViolation(loc.card, loc.member)
          THEN UNCHANGED <<time_estimates, nextId>>
          ELSE /\ time_estimates' = time_estimates \cup
                     {[id |-> nextId, card_id |-> loc.card,
                       member_id |-> loc.member, estimated_ms |-> loc.val,
                       created_at |-> now, updated_at |-> now]}
               /\ nextId' = nextId + 1
    /\ Return(s, sess[s])
    /\ UNCHANGED <<active_timers, time_entries, estimate_history, now, view, ledger, snap>>

\* the store rejects the history insert: its result is not read, the
\* update is built all the same
EstHistoryFail(s) ==
    /\ sess[s].pc = "est_history"
    /\ sess' = [sess EXCEPT ![s].pc = "est_update", ![s].upd = now,
                    ![s].failed = "history"]
    /\ UNCHANGED <<active_timers, time_entries, time_estimates,
                   estimate_history, now, view, ledger, nextId, snap, last>>

\* the update fails: `if (error) console.error(...)`, setEstimate returns
EstUpdateFail(s) ==
    /\ sess[s].pc = "est_update"
    /\ Return(s, [sess[s] EXCEPT !.failed = "update"])
    /\ UNCHANGED <<active_timers, time_entries, time_estimates,
                   estimate_history, now, view, ledger, nextId, snap>>

\* the insert fails: `if (error) console.error(...)`, setEstimate returns
EstInsertFail(s) ==
    /\ sess[s].pc = "est_insert"
    /\ Return(s, [sess[s] EXCEPT !.failed = "insert"])
    /\ UNCHANGED <<active_timers, time_entries, time_estimates,
                   estimate_history, now, view, ledger, nextId, snap>>

\* -------------------------------------------------------- removeEstimate
\* member = targetMember || t.member(); card = t.card('id')
BeginRemoveEstimate(s, c, m, obs) ==
    /\ CanCall(s, obs)
    /\ sess' = [sess EXCEPT ![s] = [Idle EXCEPT !.pc = "remove_delete",
                    !.top = "removeEstimate", !.card = c, !.member = m,
                    !.obs = obs]]
    /\ snap' = IF obs = 0 THEN snap ELSE Snapshot
    /\ UNCHANGED <<active_timers, time_entries, time_estimates,
                   estimate_history, now, view, ledger, nextId, last>>

\* delete from time_estimates where card_id and member_id are the pair's;
\* the store deletes the history of the deleted rows with them
RemoveDelete(s) ==
    /\ sess[s].pc = "remove_delete"
    /\ LET loc == sess[s]
           kept == time_estimates \ RowsOf(time_estimates, loc.card, loc.member)
       IN /\ time_estimates' = kept
          /\ estimate_history' = CascadeHistory(estimate_history, kept)
    /\ Return(s, sess[s])
    /\ UNCHANGED <<active_timers, time_entries, now, view, ledger, nextId, snap>>

\* the delete fails: `if (error) console.error(...)`, removeEstimate
\* returns
RemoveDeleteFail(s) ==
    /\ sess[s].pc = "remove_delete"
    /\ Return(s, [sess[s] EXCEPT !.failed = "delete"])
    /\ UNCHANGED <<active_timers, time_entries, time_estimates,
                   estimate_history, now, view, ledger, nextId, snap>>

\* ---------------------------------------------------- clearCardEstimates
BeginClearEstimates(s, c, obs) ==
    /\ CanCall(s, obs)
    /\ sess' = [sess EXCEPT ![s] = [Idle EXCEPT !.pc = "clear_estimates",
                    !.top = "clearCardEstimates", !.card = c, !.obs = obs]]
    /\ snap' = IF obs = 0 THEN snap ELSE Snapshot
    /\ UNCHANGED <<active_timers, time_entries, time_estimates,
                   estimate_history, now, view, ledger, nextId, last>>

\* delete from time_estimates where card_id = cardId; the store deletes
\* the history of the deleted rows with them
ClearEstimatesDelete(s) ==
    /\ sess[s].pc = "clear_estimates"
    /\ LET kept == {e \in time_estimates : e.card_id # sess[s].card}
       IN /\ time_estimates' = kept
          /\ estimate_history' = CascadeHistory(estimate_history, kept)
    /\ Return(s, sess[s])
    /\ UNCHANGED <<active_timers, time_entries, now, view, ledger, nextId, snap>>

\* ------------------------------------------------------- specifications
\* the steps of startTimer and stopTimer once a call is in flight
StartStopSteps ==
    \E s \in Sessions :
        \/ StartSelect(s)
        \/ StartInsert(s)
        \/ StopSelect(s)
        \/ StopInsert(s)
        \/ StopDelete(s)

\* the same with toggleTimer
TimerSteps == StartStopSteps \/ \E s \in Sessions : ToggleSelect(s)

AdjustSteps == \E s \in Sessions : AdjustInsert(s)

\* store calls that fail
TimerFaults ==
    \E s \in Sessions :
        \/ StartInsertFail(s)
        \/ StopInsertFail(s)
        \/ StopDeleteFail(s)

AdjustFaults == \E s \in Sessions : AdjustInsertFail(s)

StartStopCalls(obs) ==
    \E s \in Sessions, c \in Cards, m \in Members :
        \/ BeginStart(s, c, m, obs)
        \/ BeginStop(s, c, m, obs)

TimerCalls(obs) ==
    \/ StartStopCalls(obs)
    \/ \E s \in Sessions, c \in Cards, m \in Members : BeginToggle(s, c, m, obs)

AdjustCalls(obs) ==
    \E s \in Sessions, c \in Cards, m \in Members, d \in Deltas,
       n \in DateNoons : BeginAdjust(s, c, m, d, n, obs)

\* startTimer, stopTimer and toggleTimer in concurrent sessions, store
\* calls may fail
Next == TimerCalls(0) \/ TimerSteps \/ TimerFaults \/ Tick(MaxTicks)

Spec == Init /\ [][Next]_vars

\* the same, every store call succeeds
NextConc == TimerCalls(0) \/ TimerSteps \/ Tick(MaxTicks)

SpecConc == Init /\ [][NextConc]_vars

\* startTimer, stopTimer and adjustTime in concurrent sessions, store
\* calls may fail
NextEntries ==
    \/ StartStopCalls(0) \/ AdjustCalls(0)
    \/ StartStopSteps \/ AdjustSteps
    \/ TimerFaults \/ AdjustFaults
    \/ Tick(MaxTicks)

SpecEntries == Init /\ [][NextEntries]_vars

\* all four functions, one call at a time, store calls may fail
NextFault ==
    \/ TimerCalls(1) \/ AdjustCalls(1)
    \/ TimerSteps \/ AdjustSteps
    \/ TimerFaults \/ AdjustFaults
    \/ Tick(MaxTicks)

SpecFault == Init /\ [][NextFault]_vars

\* all four functions, one call at a time, every store call succeeds
NextSeq ==
    \/ TimerCalls(1) \/ AdjustCalls(1)
    \/ TimerSteps \/ AdjustSteps
    \/ Tick(MaxTicks)

SpecSeq == Init /\ [][NextSeq]_vars

\* startTimer and stopTimer, one call at a time, every store call
\* succeeds; the observer keeps up to three calls
NextRun == StartStopCalls(3) \/ StartStopSteps \/ Tick(MaxTicks)

SpecRun == Init /\ [][NextRun]_vars

\* the steps of setEstimate once a call is in flight
EstSteps ==
    \E s \in Sessions :
        \/ EstSelect(s)
        \/ EstHistory(s)
        \/ EstUpdate(s)
        \/ EstInsert(s)

EstCalls(obs) ==
    \E s \in Sessions, p \in EstPairs, v \in EstValues :
        BeginSetEstimate(s, p[1], p[2], v, obs)

\* estimates: one call at a time, every store call succeeds
NextEst == EstCalls(3) \/ EstSteps \/ Tick(MaxEstTicks)

SpecEst == Init /\ [][NextEst]_vars

\* the original estimate: one call at a time; an estimate is set and
\* revised (0 is a value the store function accepts) while the clock
\* covers the grace periods of two revisions, and is read by
\* getCardEstimates and getBoardEstimateReport
OrigCalls ==
    \E s \in Sessions, p \in EstPairs :
        \/ \E v \in {0, HourMs, 2 * HourMs} :
              BeginSetEstimate(s, p[1], p[2], v, 1)
        \/ BeginCardEstimates(s, p[1], 1)
        \/ BeginEstReport(s, [c \in BoardCards |-> {}], 0, 0, 1)

OrigSteps ==
    \E s \in Sessions :
        \/ CardEstEstimates(s)
        \/ CardEstHistory(s)
        \/ EstReportEstimates(s)
        \/ EstReportHistory(s)
        \/ EstReportEntries(s)
        \/ EstReportActives(s)

NextOrig == OrigCalls \/ EstSteps \/ OrigSteps \/ Wait(MaxTicks + 1)

SpecOrig == Init /\ [][NextOrig]_vars

\* a card's members estimate 120 minutes, log 150 minutes of completed
\* time and start and stop timers, one call at a time, while ten minutes
\* pass; the board's estimate report is read without date filter
ScenarioCalls ==
    \E s \in Sessions, c \in Cards :
        \/ \E m \in Members :
              \/ BeginSetEstimate(s, c, m, 120 * MinuteMs, 1)
              \/ BeginAdjust(s, c, m, 150 * MinuteMs, 0, 1)
              \/ BeginStart(s, c, m, 1)
              \/ BeginStop(s, c, m, 1)
        \/ \E labels \in LabelChoices : BeginEstReport(s, labels, 0, 0, 1)

ScenarioSteps ==
    \E s \in Sessions :
        \/ EstSelect(s)
        \/ EstUpdate(s)
        \/ EstInsert(s)
        \/ AdjustInsert(s)
        \/ EstReportEstimates(s)
        \/ EstReportHistory(s)
        \/ EstReportEntries(s)
        \/ EstReportActives(s)

NextScenario ==
    ScenarioCalls \/ StartStopSteps \/ ScenarioSteps \/ TenMinutes(MaxTicks)

SpecScenario == Init /\ [][NextScenario]_vars

\* the (card, member) pairs of the report rows: a card with two members
\* and a second card of one of them
RowPairs == {<<1, 1>>, <<1, 2>>, <<2, 1>>}

\* the rows of the estimate report: the members of the board's cards
\* estimate 120 seconds and log 120 or 150 seconds or take 150 seconds
\* back, one call at a time; the estimate report is read without date
\* filter
RowCalls ==
    \E s \in Sessions :
        \/ \E p \in RowPairs :
              \/ BeginSetEstimate(s, p[1], p[2], 120 * SecondMs, 1)
              \/ \E d \in {120 * SecondMs, 150 * SecondMs, 0 - 150 * SecondMs} :
                    BeginAdjust(s, p[1], p[2], d, 0, 1)
        \/ \E labels \in LabelChoices : BeginEstReport(s, labels, 0, 0, 1)

RowSteps ==
    \E s \in Sessions :
        \/ EstSelect(s)
        \/ EstUpdate(s)
        \/ EstInsert(s)
        \/ AdjustInsert(s)
        \/ EstReportEstimates(s)
        \/ EstReportHistory(s)
        \/ EstReportEntries(s)
        \/ EstReportActives(s)

NextRows == RowCalls \/ RowSteps

SpecRows == Init /\ [][NextRows]_vars

\* the rows of the time report: the members of the board's cards add and
\* subtract time and start timers, one call at a time, while time passes;
\* the time report is read without date filter
TimeRowCalls ==
    \E s \in Sessions :
        \/ \E p \in RowPairs :
              \/ \E d \in Deltas : BeginAdjust(s, p[1], p[2], d, 0, 1)
              \/ BeginStart(s, p[1], p[2], 1)
        \/ BeginTimeReport(s, [c \in BoardCards |-> {}], 0, 0, 1)

TimeRowSteps ==
    \E s \in Sessions :
        \/ AdjustInsert(s)
        \/ StartSelect(s)
        \/ StartInsert(s)
        \/ TimeReportEntries(s)
        \/ TimeReportActives(s)

NextTimeRows == TimeRowCalls \/ TimeRowSteps \/ Tick(MaxTicks)

SpecTimeRows == Init /\ [][NextTimeRows]_vars

\* the cards of the estimate report: the members of the board's cards
\* estimate 0 or 120 seconds, log 120 seconds and start timers, one call
\* at a time; the estimate report is read without date filter
FilterCalls ==
    \E s \in Sessions :
        \/ \E p \in RowPairs :
              \/ \E v \in {0, 120 * SecondMs} :
                    BeginSetEstimate(s, p[1], p[2], v, 1)
              \/ BeginAdjust(s, p[1], p[2], 120 * SecondMs, 0, 1)
              \/ BeginStart(s, p[1], p[2], 1)
        \/ BeginEstReport(s, [c \in BoardCards |-> {}], 0, 0, 1)

FilterSteps ==
    \E s \in Sessions :
        \/ StartSelect(s)
        \/ StartInsert(s)

NextFilter == FilterCalls \/ RowSteps \/ FilterSteps

SpecFilter == Init /\ [][NextFilter]_vars

\* estimates under concurrency: setEstimate and removeEstimate of
\* different sessions interleave at their store calls
EstRaceCalls ==
    \E s \in Sessions, c \in Cards, m \in Members :
        \/ \E v \in {HourMs, 2 * HourMs} : BeginSetEstimate(s, c, m, v, 0)
        \/ BeginRemoveEstimate(s, c, m, 0)

EstRaceSteps ==
    \E s \in Sessions :
        \/ EstSelect(s)
        \/ EstUpdate(s)
        \/ EstInsert(s)
        \/ RemoveDelete(s)

NextEstRace == EstRaceCalls \/ EstRaceSteps

SpecEstRace == Init /\ [][NextEstRace]_vars

\* estimates and their history under concurrency: setEstimate,
\* removeEstimate and clearCardEstimates of one pair's card interleave at
\* their store calls; the observer records the deleting calls
EstConcCalls ==
    \E s \in Sessions, p \in EstPairs :
        \/ \E v \in {HourMs, 2 * HourMs} :
              BeginSetEstimate(s, p[1], p[2], v, 0)
        \/ BeginRemoveEstimate(s, p[1], p[2], 4)
        \/ BeginClearEstimates(s, p[1], 4)

EstConcSteps ==
    \E s \in Sessions :
        \/ RemoveDelete(s)
        \/ ClearEstimatesDelete(s)

NextEstConc == EstConcCalls \/ EstSteps \/ EstConcSteps \/ Wait(MaxTicks)

SpecEstConc == Init /\ [][NextEstConc]_vars

\* startTimer, adjustTime, setEstimate and clearCardTime on the cards of
\* the board, one call at a time, every store call succeeds.  No time
\* passes (clearCardTime reads no clock), so no history is written.
ResetCalls ==
    \E s \in Sessions, c \in BoardCards :
        \/ \E m \in Members :
            \/ BeginStart(s, c, m, 1)
            \/ \E d \in Deltas : BeginAdjust(s, c, m, d, 0, 1)
            \/ BeginSetEstimate(s, c, m, HourMs, 1)
        \/ BeginClearTime(s, c, 1)

\* the board report loaded after a clearCardTime has returned, without
\* date filter; the observer keeps both calls
ResetReports ==
    /\ Len(last) = 1 /\ last[1].op = "clearCardTime"
    /\ \E s \in Sessions, labels \in LabelChoices :
        \/ BeginTimeReport(s, labels, 0, 0, 2)
        \/ BeginEstReport(s, labels, 0, 0, 2)

ReportSteps ==
    \E s \in Sessions :
        \/ TimeReportEntries(s)
        \/ TimeReportActives(s)
        \/ EstReportEstimates(s)
        \/ EstReportHistory(s)
        \/ EstReportEntries(s)
        \/ EstReportActives(s)

ResetSteps ==
    \E s \in Sessions :
        \/ StartSelect(s)
        \/ StartInsert(s)
        \/ AdjustInsert(s)
        \/ EstSelect(s)
        \/ EstInsert(s)
        \/ EstUpdate(s)
        \/ ClearEntries(s)
        \/ ClearTimers(s)

NextReset == ResetCalls \/ ResetReports \/ ResetSteps \/ ReportSteps

SpecReset == Init /\ [][NextReset]_vars

\* grouping by label: a member logs 60 minutes, starts timers and
\* estimates 60 minutes on the board's cards, one call at a time, while
\* ten minutes pass; both board reports are read without date filter,
\* with the labels the cards have then
LabelCalls ==
    \E s \in Sessions :
        \/ \E c \in BoardCards :
              \/ BeginAdjust(s, c, 1, 60 * MinuteMs, 0, 1)
              \/ BeginStart(s, c, 1, 1)
              \/ BeginSetEstimate(s, c, 1, 60 * MinuteMs, 1)
        \/ \E labels \in LabelChoices :
              \/ BeginTimeReport(s, labels, 0, 0, 1)
              \/ BeginEstReport(s, labels, 0, 0, 1)

LabelSteps ==
    \E s \in Sessions :
        \/ AdjustInsert(s)
        \/ StartSelect(s)
        \/ StartInsert(s)
        \/ EstSelect(s)
        \/ EstUpdate(s)
        \/ EstInsert(s)

NextLabels == LabelCalls \/ LabelSteps \/ ReportSteps \/ TenMinutes(MaxTicks)

SpecLabels == Init /\ [][NextLabels]_vars

\* filters.from and filters.to of the board reports: no bound, a lower
\* bound, an upper bound, both, and both at one instant; the bounds are
\* instants an entry can start at
DateFilters == {<<0, 0>>, <<Epoch + TickMs, 0>>, <<0, Epoch>>,
                <<Epoch, Epoch + TickMs>>, <<Epoch + TickMs, Epoch + TickMs>>}

\* the date filter of the board reports: a member logs time now or at a
\* given date, starts a timer and estimates on a card, one call at a time,
\* while time passes; both reports are read with every filter
DateCalls ==
    \E s \in Sessions :
        \/ \E c \in Cards :
              \/ \E dateNoon \in DateNoons :
                    BeginAdjust(s, c, 1, TickMs, dateNoon, 1)
              \/ BeginStart(s, c, 1, 1)
              \/ BeginSetEstimate(s, c, 1, 120 * SecondMs, 1)
        \/ \E f \in DateFilters :
              \/ BeginTimeReport(s, [c \in BoardCards |-> {}], f[1], f[2], 1)
              \/ BeginEstReport(s, [c \in BoardCards |-> {}], f[1], f[2], 1)

NextDates == DateCalls \/ LabelSteps \/ ReportSteps \/ TickIdle(MaxTicks)

SpecDates == Init /\ [][NextDates]_vars

\* the pairs of the rows with originalMs: a card with two members
OriginalPairs == {<<1, 1>>, <<1, 2>>}

\* the originalMs of the rows: the two members of a card set and change
\* their estimates, one call at a time, while grace periods pass; the
\* estimate report is read without date filter
OriginalRowCalls ==
    \E s \in Sessions :
        \/ \E p \in OriginalPairs, v \in {0, 60 * SecondMs, 120 * SecondMs} :
              BeginSetEstimate(s, p[1], p[2], v, 1)
        \/ \E labels \in LabelChoices : BeginEstReport(s, labels, 0, 0, 1)

OriginalRowSteps ==
    \E s \in Sessions :
        \/ EstReportEstimates(s)
        \/ EstReportHistory(s)
        \/ EstReportEntries(s)
        \/ EstReportActives(s)

NextOriginalRows ==
    OriginalRowCalls \/ EstSteps \/ OriginalRowSteps \/ Wait(MaxTicks)

SpecOriginalRows == Init /\ [][NextOriginalRows]_vars

\* the reports with failing fetches: a member of a card starts a timer,
\* adds time, sets and changes an estimate, one call at a time, while
\* grace periods pass; every fetch of the two reports succeeds or fails
ReportFaultCalls ==
    \E s \in Sessions, p \in EstPairs :
        \/ BeginStart(s, p[1], p[2], 1)
        \/ BeginAdjust(s, p[1], p[2], TickMs, 0, 1)
        \/ \E v \in {60 * SecondMs, 120 * SecondMs} :
              BeginSetEstimate(s, p[1], p[2], v, 1)
        \/ BeginTimeReport(s, [c \in BoardCards |-> {}], 0, 0, 1)
        \/ BeginEstReport(s, [c \in BoardCards |-> {}], 0, 0, 1)

ReportFaultSteps ==
    \E s \in Sessions :
        \/ StartSelect(s)
        \/ StartInsert(s)
        \/ AdjustInsert(s)
        \/ TimeReportEntriesFail(s)
        \/ TimeReportActivesFail(s)
        \/ EstReportEstimatesFail(s)
        \/ EstReportHistoryFail(s)
        \/ EstReportEntriesFail(s)
        \/ EstReportActivesFail(s)

NextReportFault ==
    \/ ReportFaultCalls
    \/ ReportFaultSteps
    \/ EstSteps
    \/ ReportSteps
    \/ Wait(MaxTicks)

SpecReportFault == Init /\ [][NextReportFault]_vars

\* the writes fail: a member of a card calls startTimer, stopTimer,
\* adjustTime, setEstimate and removeEstimate, one call at a time, while
\* grace periods pass; every insert, update and delete succeeds or fails
WriteFaultCalls ==
    \E s \in Sessions, p \in EstPairs :
        \/ BeginStart(s, p[1], p[2], 1)
        \/ BeginStop(s, p[1], p[2], 1)
        \/ BeginAdjust(s, p[1], p[2], TickMs, 0, 1)
        \/ \E v \in {60 * SecondMs, 120 * SecondMs} :
              BeginSetEstimate(s, p[1], p[2], v, 1)
        \/ BeginRemoveEstimate(s, p[1], p[2], 1)

EstFaults ==
    \E s \in Sessions :
        \/ RemoveDelete(s)
        \/ EstHistoryFail(s)
        \/ EstUpdateFail(s)
        \/ EstInsertFail(s)
        \/ RemoveDeleteFail(s)

NextWriteFault ==
    \/ WriteFaultCalls
    \/ StartStopSteps \/ AdjustSteps \/ EstSteps
    \/ TimerFaults \/ AdjustFaults \/ EstFaults
    \/ Wait(MaxTicks)

SpecWriteFault == Init /\ [][NextWriteFault]_vars

\* the race of startTimer: concurrent sessions start and stop the timer
\* of one pair while time passes; the observer sees every call return
StartRaceCalls ==
    \E s \in Sessions, p \in EstPairs :
        \/ BeginStart(s, p[1], p[2], 4)
        \/ BeginStop(s, p[1], p[2], 4)

NextStartRace == StartRaceCalls \/ StartStopSteps \/ Tick(MaxTicks)

SpecStartRace == Init /\ [][NextStartRace]_vars

\* ------------------------------------------------------------ UI handlers
\* what the user can type into the duration fields: every string of up
\* to InputLen of these characters
InputChars == {"0", "1", "m", " "}

InputLen == 3

Inputs == UNION {[1..n -> InputChars] : n \in 0..InputLen}

\* each of them with its parseDuration(input)
Parsed == {[str |-> input, ms |-> ParseDuration(input)] : input \in Inputs}

\* a handler returns without calling the store; the observer records it
HandlerReturns(s, handler, c, m, ms) ==
    /\ CanCall(s, 1)
    /\ last' = << CallRecord([Idle EXCEPT !.top = handler, !.card = c,
                                 !.member = m, !.val = ms, !.obs = 1]) >>
    /\ snap' = Snapshot
    /\ UNCHANGED <<active_timers, time_entries, time_estimates,
                   estimate_history, now, view, ledger, nextId, sess>>

\* a variant of handleSetEstimate without the check of ms
HandleSetEstimateUnchecked(s, input, c, m) ==
    BeginSetEstimate(s, c, m, input.ms, 1)

\* EstimateCardApp, handleSetEstimate: `const ms = parseDuration(input);
\* if (!ms || ms <= 0) return;` then setEstimate(t, ms, target) for the
\* selected member
HandleSetEstimate(s, input, c, m) ==
    LET ms == input.ms
    IN IF ms = 0 \/ ms <= 0
       THEN HandlerReturns(s, "handleSetEstimate", c, m, ms)
       ELSE BeginSetEstimate(s, c, m, ms, 1)

\* TimerApp, handleManualAdd: `if (ms > 0 && targets.length > 0)` then
\* adjustTime(t, ms, manualDate || undefined, target) for the selected
\* member; otherwise nothing
HandleManualAdd(s, input, c, m) ==
    LET ms == input.ms
    IN IF ms > 0
       THEN BeginAdjust(s, c, m, ms, 0, 1)
       ELSE HandlerReturns(s, "handleManualAdd", c, m, ms)

\* TimerApp, handleManualSubtract: the same with adjustTime(t, -ms, ...)
HandleManualSubtract(s, input, c, m) ==
    LET ms == input.ms
    IN IF ms > 0
       THEN BeginAdjust(s, c, m, 0 - ms, 0, 1)
       ELSE HandlerReturns(s, "handleManualSubtract", c, m, ms)

Handlers == {"handleSetEstimate", "handleManualAdd", "handleManualSubtract"}

\* the user types a string and presses a button of the card's views, one
\* handler at a time
HandlerCalls ==
    \E s \in Sessions, p \in EstPairs, input \in Parsed :
        \/ HandleSetEstimate(s, input, p[1], p[2])
        \/ HandleManualAdd(s, input, p[1], p[2])
        \/ HandleManualSubtract(s, input, p[1], p[2])

HandlerSteps ==
    \E s \in Sessions :
        \/ EstSelect(s)
        \/ EstUpdate(s)
        \/ EstInsert(s)
        \/ AdjustInsert(s)

NextHandlers == HandlerCalls \/ HandlerSteps

SpecHandlers == Init /\ [][NextHandlers]_vars

\* ---------------------------------------------------------------- polling
\* view: mounted, the component is mounted; visible, document
\* .visibilityState === "visible"; listening, handleVisibility is
\* registered for visibilitychange; pollRef, what pollRef.current holds
\* ("null", the id of a "live" or of a "cleared" interval); live, the
\* number of intervals that are set; fetches, the number of refreshData()
\* / silentReload() calls issued; event, the last event

\* clearInterval(pollRef.current)
ClearPoll(v) ==
    IF v.pollRef = "live"
    THEN [v EXCEPT !.live = @ - 1, !.pollRef = "cleared"]
    ELSE v

\* startPolling: clearInterval(pollRef.current); pollRef.current =
\* setInterval(..., POLL_INTERVAL)
StartPolling(v) ==
    [ClearPoll(v) EXCEPT !.live = @ + 1, !.pollRef = "live"]

\* refreshData() / silentReload()
Refresh(v) == [v EXCEPT !.fetches = @ + 1]

\* a variant of handleVisibility that does not start polling again
HandleVisibilityNoRestart(v) ==
    IF v.visible THEN Refresh(v) ELSE ClearPoll(v)

\* handleVisibility
HandleVisibility(v) ==
    IF v.visible THEN StartPolling(Refresh(v)) ELSE ClearPoll(v)

\* the component mounts (a new instance, useRef(null)): the effect runs
\* startPolling() and registers handleVisibility
Mount ==
    /\ ~view.mounted
    /\ view' = [StartPolling([view EXCEPT !.pollRef = "null"]) EXCEPT
                    !.mounted = TRUE, !.listening = TRUE, !.event = "mount"]
    /\ UNCHANGED <<active_timers, time_entries, time_estimates,
                   estimate_history, now, ledger, nextId, sess, snap, last>>

\* the component unmounts: the cleanup of the effect
Unmount ==
    /\ view.mounted
    /\ view' = [ClearPoll(view) EXCEPT !.mounted = FALSE,
                    !.listening = FALSE, !.event = "unmount"]
    /\ UNCHANGED <<active_timers, time_entries, time_estimates,
                   estimate_history, now, ledger, nextId, sess, snap, last>>

\* refreshData / silentReload changes identity: the cleanup runs and the
\* effect runs again
EffectRerun ==
    /\ view.mounted
    /\ view' = [StartPolling(ClearPoll(view)) EXCEPT !.event = "rerun"]
    /\ UNCHANGED <<active_timers, time_entries, time_estimates,
                   estimate_history, now, ledger, nextId, sess, snap, last>>

\* the tab is hidden or shown: the browser fires visibilitychange
VisibilityChange ==
    LET v == [view EXCEPT !.visible = ~@,
                          !.event = IF view.visible THEN "hidden"
                                    ELSE "visible"]
    IN /\ (v.visible /\ v.listening) => view.fetches < MaxFetches
       /\ view' = IF v.listening THEN HandleVisibility(v) ELSE v
       /\ UNCHANGED <<active_timers, time_entries, time_estimates,
                      estimate_history, now, ledger, nextId, sess, snap, last>>

\* an interval that is set fires: `if (document.visibilityState ===
\* "visible") refreshData()`
PollTick ==
    /\ view.live > 0
    /\ view.visible => view.fetches < MaxFetches
    /\ view' = [(IF view.visible THEN Refresh(view) ELSE view) EXCEPT
                    !.event = "tick"]
    /\ UNCHANGED <<active_timers, time_entries, time_estimates,
                   estimate_history, now, ledger, nextId, sess, snap, last>>

NextPolling ==
    Mount \/ Unmount \/ EffectRerun \/ VisibilityChange \/ PollTick

SpecPolling == Init /\ [][NextPolling]_vars

\* ------------------------------------------------------------- round trip
\* the durations that are formatted: no, one and twelve hours, with
\* minutes and seconds of one and two digits and a rest below a second
Durations ==
    {h * HourMs + m * MinuteMs + sec * SecondMs + r :
        h \in {0, 1, 12}, m \in {0, 1, 10, 59}, sec \in {0, 1, 10, 59},
        r \in {0, 1, 999}}

\* formatDuration(d) in long form is called; the observer records the
\* call and the string
FormatCall ==
    /\ \E d \in Durations :
          last' = << CallRecord([Idle EXCEPT !.top = "formatDuration",
                                              !.val = d,
                                              !.ret = FormatDuration(d, FALSE)]) >>
    /\ UNCHANGED <<active_timers, time_entries, time_estimates,
                   estimate_history, now, nextId, sess, snap, view, ledger>>

\* parseDuration is called on the string; the observer records the call
\* and the number
ParseCall ==
    /\ Len(last) = 1
    /\ last[1].op = "formatDuration"
    /\ last' = Append(last, CallRecord([Idle EXCEPT !.top = "parseDuration",
                               !.ret = ParseDuration(last[1].ret)]))
    /\ UNCHANGED <<active_timers, time_entries, time_estimates,
                   estimate_history, now, nextId, sess, snap, view, ledger>>

NextRoundTrip == FormatCall \/ ParseCall

SpecRoundTrip == Init /\ [][NextRoundTrip]_vars

\* ------------------------------------------------------------ timer popup
\* user: the member of the session, t.member(); sel: the entry of
\* selectedMembers the button is pressed with (one member is selected)
\* "self" in selectedMembers
Self == 0

\* the null of getTargetMembers
NoTarget == 0

\* a member id that is not among the board's members
RemovedMember == 3

\* boardMembers: the board's members, or [] when t.board("members") failed
KnownChoices == {BoardMembers, {}}

\* selectedMembers: "self", a board member, or the id of a removed member
\* pre-selected from its active timer
Selections == {Self} \cup BoardMembers \cup {RemovedMember}

\* getTargetMembers, one entry: "self" maps to null, an id found in
\* boardMembers to that member and any other id to null; .filter((m) =>
\* m !== undefined) drops nothing
GetTargetMember(sel, known) ==
    IF sel = Self THEN NoTarget
    ELSE IF sel \in known THEN sel ELSE NoTarget

\* timeData[mId]?.activeStart != null, timeData as getCardTimeData
\* returns it
ActiveIn(timeData, mId) ==
    mId \in DOMAIN timeData /\ timeData[mId].activeStart # 0

\* a store function of the popup begins; member is the member it acts on,
\* resolved tells whether sel is "self" or was found in boardMembers
PopupBegin(s, fn, pc, c, user, sel, known, member, v) ==
    /\ CanBegin(s, 1)
    /\ sess' = [sess EXCEPT ![s] = [Idle EXCEPT !.pc = pc, !.top = fn,
                    !.card = c, !.member = member, !.val = v, !.obs = 1,
                    !.at = now, !.user = user, !.sel = sel,
                    !.resolved = (sel = Self \/ sel \in known)]]
    /\ snap' = Snapshot
    /\ UNCHANGED <<active_timers, time_entries, time_estimates,
                   estimate_history, now, view, ledger, nextId, last>>

\* TimerApp, handleToggle with one selected member: stopTimer(t, target)
\* when the selected member runs, otherwise startTimer(t, target) unless
\* timeData[target ? target.id : memberId] runs.  startTimer(t) and
\* stopTimer(t) of storage.js have no second parameter: member =
\* t.member()
HandleToggle(s, c, user, sel, known) ==
    LET timeData == CardTimeData(time_entries, active_timers, c)
        target == GetTargetMember(sel, known)
        mId == IF sel = Self THEN user ELSE sel
        startId == IF target # NoTarget THEN target ELSE user
    IN IF ActiveIn(timeData, mId)
       THEN PopupBegin(s, "stopTimer", "stop_select", c, user, sel, known, user, 0)
       ELSE IF ~ActiveIn(timeData, startId)
       THEN PopupBegin(s, "startTimer", "start_select", c, user, sel, known, user, 0)
       ELSE HandlerReturns(s, "handleToggle", c, user, 0)

\* TimerApp, handleManualAdd with one selected member and a valid input:
\* adjustTime(t, ms, undefined, target), member = targetMember ||
\* t.member()
HandleManualAddFor(s, c, user, sel, known) ==
    LET target == GetTargetMember(sel, known)
    IN PopupBegin(s, "adjustTime", "adjust_insert", c, user, sel, known,
                  IF target # NoTarget THEN target ELSE user, TickMs)

\* the members of the board press the buttons of a card's popup, one
\* handler at a time, while time passes
PopupCalls ==
    \E s \in Sessions, c \in Cards, user \in BoardMembers,
       sel \in Selections, known \in KnownChoices :
        \/ HandleToggle(s, c, user, sel, known)
        \/ HandleManualAddFor(s, c, user, sel, known)

NextPopup ==
    PopupCalls \/ StartStopSteps \/ AdjustSteps \/ TickIdle(MaxTicks)

SpecPopup == Init /\ [][NextPopup]_vars

\* -------------------------------------------------------- getCardTimeData
\* card = t.card('id'); the two selects are separate store calls
BeginCardTimeData(s, c, obs) ==
    /\ CanCall(s, obs)
    /\ sess' = [sess EXCEPT ![s] = [Idle EXCEPT !.pc = "card_entries",
                    !.top = "getCardTimeData", !.card = c, !.obs = obs]]
    /\ snap' = IF obs = 0 THEN snap ELSE Snapshot
    /\ UNCHANGED <<active_timers, time_entries, time_estimates,
                   estimate_history, now, view, ledger, nextId, last>>

\* select member_id, member_name, duration_ms from time_entries for the
\* card
CardTimeEntries(s) ==
    /\ sess[s].pc = "card_entries"
    /\ sess' = [sess EXCEPT ![s].pc = "card_actives",
                    ![s].got = time_entries]
    /\ UNCHANGED <<active_timers, time_entries, time_estimates,
                   estimate_history, now, view, ledger, nextId, snap, last>>

\* select member_id, member_name, started_at from active_timers for the
\* card; result is built from the two answers and returned (ret keeps the
\* answers, the view is CardTimeData of them)
CardTimeActives(s) ==
    /\ sess[s].pc = "card_actives"
    /\ Return(s, [sess[s] EXCEPT !.at = now,
                    !.ret = [entries |-> sess[s].got,
                             actives |-> active_timers]])
    /\ UNCHANGED <<active_timers, time_entries, time_estimates,
                   estimate_history, now, view, ledger, nextId, snap>>

\* one session reads the card's time while the others start and stop the
\* timer of the pair and time passes; the observer sees the reads
StopReadCalls ==
    \E s \in Sessions, p \in EstPairs :
        \/ BeginStart(s, p[1], p[2], 0)
        \/ BeginStop(s, p[1], p[2], 0)
        \/ BeginCardTimeData(s, p[1], 4)

CardTimeSteps == \E s \in Sessions : CardTimeEntries(s) \/ CardTimeActives(s)

NextStopRead ==
    StopReadCalls \/ StartStopSteps \/ CardTimeSteps \/ Tick(MaxTicks)

SpecStopRead == Init /\ [][NextStopRead]_vars

\* ---------------------------------------------------------- time ledger
\* the pair whose time the observer keeps account of
LedgerPair == <<1, 1>>

\* time passes, during a call as well as between calls; the pair has spent
\* it RUNNING when its active_timers row exists
Elapse(max) ==
    /\ now < Epoch + max * TickMs
    /\ now' = now + TickMs
    /\ ledger' = IF HasRow(active_timers, LedgerPair[1], LedgerPair[2])
                 THEN [ledger EXCEPT !.running = @ + TickMs]
                 ELSE ledger
    /\ UNCHANGED <<active_timers, time_entries, time_estimates,
                   estimate_history, nextId, sess, snap, last, view>>

\* adjustTime(t, deltaMs) for the pair begins; the observer adds deltaMs
LedgerAdjust(s, deltaMs) ==
    /\ CanBegin(s, 1)
    /\ sess' = [sess EXCEPT ![s] = [Idle EXCEPT !.pc = "adjust_insert",
                    !.top = "adjustTime", !.card = LedgerPair[1],
                    !.member = LedgerPair[2], !.obs = 1, !.val = deltaMs,
                    !.at = now]]
    /\ snap' = Snapshot
    /\ ledger' = [ledger EXCEPT !.deltas = @ + deltaMs]
    /\ UNCHANGED <<active_timers, time_entries, time_estimates,
                   estimate_history, now, view, nextId, last>>

\* one session calls the four functions on the pair, one call at a time,
\* every store call succeeds
LedgerCalls ==
    \E s \in Sessions :
        \/ BeginStart(s, LedgerPair[1], LedgerPair[2], 1)
        \/ BeginStop(s, LedgerPair[1], LedgerPair[2], 1)
        \/ BeginToggle(s, LedgerPair[1], LedgerPair[2], 1)
        \/ \E d \in Deltas : LedgerAdjust(s, d)

NextLedger ==
    LedgerCalls \/ TimerSteps \/ AdjustSteps \/ Elapse(MaxTicks)

SpecLedger == Init /\ [][NextLedger]_vars

\* the same with store calls that take no time
NextLedgerIdle ==
    LedgerCalls \/ TimerSteps \/ AdjustSteps \/ (AllIdle /\ Elapse(MaxTicks))

SpecLedgerIdle == Init /\ [][NextLedgerIdle]_vars

\* ------------------------------------------------------ reset and stop
\* a member starts the timer of a pair of the card (no other call in
\* flight) and stops it; another session resets the card while the stop
\* is in flight or after it.  Once a reset has begun no start and no stop
\* begins, so every stop began before the reset.
NoResetYet ==
    /\ Len(last) = 0
    /\ \A r \in Sessions : sess[r].top # "clearCardTime"

ResetRaceCalls ==
    \E s \in Sessions, p \in EstPairs :
        \/ NoResetYet /\ AllIdle /\ BeginStart(s, p[1], p[2], 0)
        \/ NoResetYet /\ BeginStop(s, p[1], p[2], 0)
        \/ /\ \A r \in Sessions : sess[r].top # "startTimer"
           /\ BeginClearTime(s, p[1], 4)

NextResetRace ==
    \/ ResetRaceCalls \/ StartStopSteps \/ Tick(MaxTicks)
    \/ \E s \in Sessions : ClearEntries(s) \/ ClearTimers(s)

SpecResetRace == Init /\ [][NextResetRace]_vars

\* the sums of the groupings: member 1 adds time on both cards of the
\* board and estimates 120 seconds on them once, member 2 starts a timer
\* on card 1, one call at a time, while time passes; both reports are
\* read without date filter
GroupSumCalls ==
    \E s \in Sessions :
        \/ \E c \in BoardCards :
              \/ /\ ~HasRow(time_estimates, c, 1)
                 /\ BeginSetEstimate(s, c, 1, 120 * SecondMs, 1)
              \/ BeginAdjust(s, c, 1, TickMs, 0, 1)
        \/ BeginStart(s, 1, 2, 1)
        \/ BeginTimeReport(s, [c \in BoardCards |-> {}], 0, 0, 1)
        \/ BeginEstReport(s, [c \in BoardCards |-> {}], 0, 0, 1)

GroupSumSteps ==
    \E s \in Sessions :
        \/ EstSelect(s)
        \/ EstInsert(s)
        \/ AdjustInsert(s)
        \/ StartSelect(s)
        \/ StartInsert(s)

NextGroupSums ==
    GroupSumCalls \/ GroupSumSteps \/ ReportSteps \/ TickIdle(MaxTicks)

SpecGroupSums == Init /\ [][NextGroupSums]_vars

\* ------------------------------------------------- report confirmations
\* view.confirmReset: the cardId of the reset dialog, 0 for null;
\* view.confirmStop: the stop dialog and the timerIds of its activeMembers

\* the button "Tilbakestill tid" of a card's row: setConfirmReset({cardId})
OpenReset(c) ==
    /\ view' = [view EXCEPT !.confirmReset = c, !.event = "open_reset"]
    /\ UNCHANGED <<active_timers, time_entries, time_estimates,
                   estimate_history, now, ledger, nextId, sess, snap, last>>

\* "Avbryt" of the reset dialog: setConfirmReset(null)
CancelReset ==
    /\ view.confirmReset # 0
    /\ view' = [view EXCEPT !.confirmReset = 0, !.event = "cancel_reset"]
    /\ UNCHANGED <<active_timers, time_entries, time_estimates,
                   estimate_history, now, ledger, nextId, sess, snap, last>>

\* a variant in which the button of the row calls handleReset itself
ConfirmResetUnasked(s) ==
    /\ CanCall(s, 1)
    /\ \E c \in BoardCards :
          sess' = [sess EXCEPT ![s] = [Idle EXCEPT !.pc = "reset_by_id",
                       !.top = "resetCardTimeById", !.card = c, !.obs = 1]]
    /\ snap' = Snapshot
    /\ view' = [view EXCEPT !.event = "confirm_reset"]
    /\ UNCHANGED <<active_timers, time_entries, time_estimates,
                   estimate_history, now, ledger, nextId, last>>

\* "Tilbakestill" of the reset dialog: handleReset(confirmReset.cardId)
\* calls resetCardTimeById(cardId)
ConfirmReset(s) ==
    /\ view.confirmReset # 0
    /\ CanCall(s, 1)
    /\ sess' = [sess EXCEPT ![s] = [Idle EXCEPT !.pc = "reset_by_id",
                    !.top = "resetCardTimeById", !.card = view.confirmReset,
                    !.obs = 1]]
    /\ snap' = Snapshot
    /\ view' = [view EXCEPT !.event = "confirm_reset"]
    /\ UNCHANGED <<active_timers, time_entries, time_estimates,
                   estimate_history, now, ledger, nextId, last>>

\* resetCardTime(workItemId) deletes all CompletedEntry and ActiveTimer
\* rows of the item; handleReset goes on with setConfirmReset(null) (and
\* loadData(), which reads)
ResetCardTimeById(s) ==
    /\ sess[s].pc = "reset_by_id"
    /\ LET keep == {r \in BagToSet(time_entries) : r.card_id # sess[s].card}
       IN time_entries' = [r \in keep |-> time_entries[r]]
    /\ active_timers' = {r \in active_timers : r.card_id # sess[s].card}
    /\ view' = [view EXCEPT !.confirmReset = 0, !.event = "reset_done"]
    /\ Return(s, sess[s])
    /\ UNCHANGED <<time_estimates, estimate_history, now, ledger, nextId, snap>>

\* the running badge of a row: setConfirmStop({activeMembers}), here the
\* timers of a card's row
OpenStop(c) ==
    /\ \E r \in active_timers : r.card_id = c
    /\ view' = [view EXCEPT !.event = "open_stop", !.confirmStop =
                    [open |-> TRUE,
                     timerIds |-> {r.id : r \in {x \in active_timers :
                                                    x.card_id = c}}]]
    /\ UNCHANGED <<active_timers, time_entries, time_estimates,
                   estimate_history, now, ledger, nextId, sess, snap, last>>

\* "Avbryt" of the stop dialog: setConfirmStop(null)
CancelStop ==
    /\ view.confirmStop.open
    /\ view' = [view EXCEPT !.event = "cancel_stop", !.confirmStop =
                    [open |-> FALSE, timerIds |-> {}]]
    /\ UNCHANGED <<active_timers, time_entries, time_estimates,
                   estimate_history, now, ledger, nextId, sess, snap, last>>

\* "Stopp tid" of the stop dialog: handleStop(confirmStop.activeMembers)
\* calls stopActiveTimersByIds(timerIds, cardInfoMap)
ConfirmStop(s) ==
    /\ view.confirmStop.open
    /\ CanBegin(s, 1)
    /\ sess' = [sess EXCEPT ![s] = [Idle EXCEPT !.pc = "stop_by_ids",
                    !.top = "stopActiveTimersByIds",
                    !.got = view.confirmStop.timerIds, !.obs = 1]]
    /\ snap' = Snapshot
    /\ view' = [view EXCEPT !.event = "confirm_stop"]
    /\ UNCHANGED <<active_timers, time_entries, time_estimates,
                   estimate_history, now, ledger, nextId, last>>

\* stopAllActiveTimers(ids), the bulk variant of stop: every timer of ids
\* that exists becomes a CompletedEntry of durationMs = now - startedAt and
\* is deleted; handleStop goes on with setConfirmStop(null) (and
\* loadData(), which reads)
StopActiveTimersByIds(s) ==
    /\ sess[s].pc = "stop_by_ids"
    /\ LET rows == {r \in active_timers : r.id \in sess[s].got}
       IN /\ time_entries' = time_entries (+) SetToBag(
                 {[card_id |-> r.card_id, member_id |-> r.member_id,
                   started_at |-> r.started_at, ended_at |-> now,
                   duration_ms |-> now - r.started_at, timer |-> r.id] :
                      r \in rows})
          /\ active_timers' = active_timers \ rows
    /\ view' = [view EXCEPT !.event = "stop_done", !.confirmStop =
                    [open |-> FALSE, timerIds |-> {}]]
    /\ Return(s, sess[s])
    /\ UNCHANGED <<time_estimates, estimate_history, now, ledger, nextId, snap>>

\* the report view of a board on which a member starts timers and adds
\* time on the cards, one call at a time
ConfirmCalls ==
    \E s \in Sessions :
        \/ \E c \in BoardCards :
              \/ BeginStart(s, c, 1, 1)
              \/ BeginAdjust(s, c, 1, TickMs, 0, 1)
        \/ ConfirmReset(s)
        \/ ConfirmStop(s)

ConfirmSteps ==
    \E s \in Sessions :
        \/ StartSelect(s)
        \/ StartInsert(s)
        \/ AdjustInsert(s)
        \/ ResetCardTimeById(s)
        \/ StopActiveTimersByIds(s)

Dialogs ==
    \/ \E c \in BoardCards : OpenReset(c) \/ OpenStop(c)
    \/ CancelReset
    \/ CancelStop

NextConfirm == ConfirmCalls \/ ConfirmSteps \/ Dialogs

SpecConfirm == Init /\ [][NextConfirm]_vars

\* -------------------------------------------------------------- live tick
\* view.tickRef: tickRef.current, "null", "live" (an interval that is
\* set) or "cleared"; view.ticks: the tick intervals that are set;
\* view.hasActive: whether the timeData loaded last has a member with
\* activeStart; view.clock: the state now; view.fetches: the
\* getCardTimeData calls issued

\* clearInterval(tickRef.current)
ClearTick(v) ==
    IF v.tickRef = "live"
    THEN [v EXCEPT !.ticks = @ - 1, !.tickRef = "cleared"]
    ELSE v

\* a variant of the effect without its cleanup
TickEffectNoCleanup(v, hasActive) ==
    IF hasActive
    THEN [v EXCEPT !.ticks = @ + 1, !.tickRef = "live",
                   !.hasActive = hasActive]
    ELSE [ClearTick(v) EXCEPT !.hasActive = hasActive]

\* the tick effect for a new timeData: the cleanup of the previous run,
\* then `if (hasActive) tickRef.current = setInterval(...) else
\* clearInterval(tickRef.current)`
TickEffect(v, hasActive) ==
    LET cleaned == ClearTick(v)
    IN IF hasActive
       THEN [cleaned EXCEPT !.ticks = @ + 1, !.tickRef = "live",
                            !.hasActive = hasActive]
       ELSE [ClearTick(cleaned) EXCEPT !.hasActive = hasActive]

\* Object.values(timeData).some((d) => d.activeStart != null)
HasActive(timeData) ==
    \E m \in DOMAIN timeData :
        timeData[m].present /\ timeData[m].activeStart # 0

\* the popup of a card mounts: timeData = {}, tickRef = useRef(null), the
\* effect runs
TimerMount ==
    /\ ~view.mounted
    /\ view' = [TickEffect([view EXCEPT !.tickRef = "null"], FALSE) EXCEPT
                    !.mounted = TRUE, !.event = "mount"]
    /\ UNCHANGED <<active_timers, time_entries, time_estimates,
                   estimate_history, now, ledger, nextId, sess, snap, last>>

\* the popup unmounts: the cleanup of the effect
TimerUnmount ==
    /\ view.mounted
    /\ view' = [ClearTick(view) EXCEPT !.mounted = FALSE,
                    !.event = "unmount"]
    /\ UNCHANGED <<active_timers, time_entries, time_estimates,
                   estimate_history, now, ledger, nextId, sess, snap, last>>

\* refreshData: getCardTimeData(t), setTimeData(data), setNow(Date.now());
\* the new timeData runs the effect
RefreshData(c) ==
    /\ view.mounted
    /\ view.fetches < MaxFetches
    /\ view' = [TickEffect(view, HasActive(CardTimeData(time_entries,
                                                      active_timers, c)))
                    EXCEPT !.fetches = @ + 1, !.clock = now,
                           !.event = "load"]
    /\ UNCHANGED <<active_timers, time_entries, time_estimates,
                   estimate_history, now, ledger, nextId, sess, snap, last>>

\* a tick interval that is set fires: setNow(Date.now())
ClockTick ==
    /\ view.ticks > 0
    /\ view' = [view EXCEPT !.clock = now, !.event = "clock"]
    /\ UNCHANGED <<active_timers, time_entries, time_estimates,
                   estimate_history, now, ledger, nextId, sess, snap, last>>

\* the popup of a card whose timer is started and stopped, one call at a
\* time, while time passes
LiveTickCalls ==
    \E s \in Sessions, p \in EstPairs :
        \/ BeginStart(s, p[1], p[2], 1)
        \/ BeginStop(s, p[1], p[2], 1)

NextLiveTick ==
    \/ LiveTickCalls \/ StartStopSteps \/ TickIdle(MaxTicks)
    \/ TimerMount \/ TimerUnmount \/ ClockTick
    \/ \E p \in EstPairs : RefreshData(p[1])

SpecLiveTick == Init /\ [][NextLiveTick]_vars

\* ---------------------------------------------------------------- claims
\* the observer's view of the call that returned last, once all is idle
LastCall == last[Len(last)]

Returned(op) == AllIdle /\ Len(last) > 0 /\ LastCall.op = op

\* the row the pair of the last call had when that call began
SnapTimer == CHOOSE r \in RowsOf(snap.active_timers, LastCall.card, LastCall.member) : TRUE

SnapEstimate == CHOOSE r \in RowsOf(snap.time_estimates, LastCall.card, LastCall.member) : TRUE

\* number of completed entries made from the active_timers row id
TimerEntryCount(entries, id) ==
    BagCardinality([r \in {x \in BagToSet(entries) : x.timer = id} |-> entries[r]])

\* C1: in every reachable state, whatever the interleaving of startTimer,
\* stopTimer and toggleTimer calls of concurrent sessions (and with store
\* calls failing), each (card, member) pair has at most one active_timers row
C1_OneActiveTimerPerPair ==
    \A c \in Cards, m \in Members :
        Cardinality(RowsOf(active_timers, c, m)) <= 1

\* a second session is about to insert a timer for a pair that already has one
C1_Witness ==
    \E s \in Sessions :
        /\ sess[s].pc = "start_insert"
        /\ HasRow(active_timers, sess[s].card, sess[s].member)

\* C2 (as claimed): for every interleaving of stopTimer calls against one
\* running timer, at most one completed entry is inserted for that timer
C2_StopInsertsOnce ==
    \A id \in 1..MaxRows : TimerEntryCount(time_entries, id) <= 1

\* C3 (as claimed): when a stopTimer that found a running timer has
\* returned, also after a store call of it failed, the timer's interval is
\* counted exactly once: the timer is still running and has no completed
\* entry, or it is gone and has exactly one
C3_PartialFailureCountsOnce ==
    (Returned("stopTimer") /\ LastCall.was) =>
        LET running == SnapTimer \in active_timers
            n == TimerEntryCount(time_entries, SnapTimer.id)
        IN (running /\ n = 0) \/ (~running /\ n = 1)

\* C4: startTimer on a pair that is running changes no row; after start,
\* start on a stopped pair there is exactly one timer, with the first
\* start's time; after the following stop the pair is stopped and exactly
\* one entry was added, spanning the first start's time to the stop's time
C4_StartIdempotent ==
    /\ (Returned("startTimer") /\ LastCall.was) =>
            /\ active_timers = snap.active_timers
            /\ time_entries = snap.time_entries
    /\ (AllIdle /\ Len(last) = 2 /\ last[1].op = "startTimer"
            /\ last[2].op = "startTimer") =>
            \E r \in active_timers :
                /\ RowsOf(active_timers, last[1].card, last[1].member) = {r}
                /\ r.started_at = last[1].at
    /\ (AllIdle /\ Len(last) = 3 /\ last[1].op = "startTimer"
            /\ last[2].op = "startTimer" /\ last[3].op = "stopTimer") =>
            /\ ~HasRow(active_timers, last[1].card, last[1].member)
            /\ \E e \in BagToSet(time_entries) :
                /\ time_entries = snap.time_entries (+) SetToBag({e})
                /\ e.card_id = last[1].card
                /\ e.member_id = last[1].member
                /\ e.started_at = last[1].at
                /\ e.ended_at = last[3].at
                /\ e.duration_ms = last[3].at - last[1].at

\* start, start, stop have returned, the stop later than the first start
C4_Witness ==
    /\ AllIdle /\ Len(last) = 3
    /\ last[1].op = "startTimer" /\ last[2].op = "startTimer"
    /\ last[3].op = "stopTimer"
    /\ last[3].at > last[1].at

\* C5: stopTimer on a stopped pair changes no row; on a running pair it
\* adds exactly one entry with the timer's started_at, ended_at = the time
\* it sampled and duration_ms = their difference, and removes the timer
C5_StopEffect ==
    Returned("stopTimer") =>
        IF ~LastCall.was
        THEN /\ active_timers = snap.active_timers
             /\ time_entries = snap.time_entries
        ELSE /\ time_entries = snap.time_entries (+) SetToBag(
                    {[card_id |-> LastCall.card, member_id |-> LastCall.member,
                      started_at |-> SnapTimer.started_at,
                      ended_at |-> LastCall.at,
                      duration_ms |-> LastCall.at - SnapTimer.started_at,
                      timer |-> SnapTimer.id]})
             /\ active_timers = snap.active_timers \ {SnapTimer}
             /\ ~HasRow(active_timers, LastCall.card, LastCall.member)
             /\ LastCall.at <= now

\* a stopTimer on a timer that ran for some time has returned
C5_Witness ==
    /\ Returned("stopTimer") /\ LastCall.was
    /\ LastCall.at > SnapTimer.started_at

\* C8: toggleTimer stops a running pair and starts a stopped one, and the
\* flag it returns tells whether the pair has a timer when it returns
C8_ToggleResult ==
    Returned("toggleTimer") =>
        LET running == HasRow(active_timers, LastCall.card, LastCall.member)
        IN /\ LastCall.was => ~running
           /\ ~LastCall.was => running
           /\ LastCall.ret = IF running THEN "running" ELSE "stopped"

\* a toggleTimer that stopped a running timer has returned
C8_Witness ==
    /\ Returned("toggleTimer") /\ LastCall.was
    /\ LastCall.ret = "stopped"
    /\ BagCardinality(time_entries) = BagCardinality(snap.time_entries) + 1

\* C9 (as claimed): while a pair is running and time advances its live
\* total does not decrease, and in the step that clears activeStart the
\* stored totalMs after the step equals the live total at that instant
C9_LiveTotalContinuous ==
    [][\A c \in Cards, m \in Members :
        LET before == CardTimeData(time_entries, active_timers, c)[m]
            after == CardTimeData(time_entries', active_timers', c)[m]
        IN /\ (before.activeStart # 0 /\ after.activeStart # 0 /\ now' > now)
                => GetTotalWithActive(after, now') >= GetTotalWithActive(before, now)
           /\ (before.activeStart # 0 /\ after.activeStart = 0)
                => after.totalMs = GetTotalWithActive(before, now)]_vars

\* C10 (as claimed): every completed entry has ended_at >= started_at and
\* duration_ms = ended_at - started_at
C10_EntryInvariant ==
    \A e \in BagToSet(time_entries) :
        /\ e.ended_at >= e.started_at
        /\ e.duration_ms = e.ended_at - e.started_at

\* C10 (amended): every entry written by stopTimer has ended_at >=
\* started_at and duration_ms = ended_at - started_at; every entry written
\* by adjustTime has started_at = ended_at and duration_ms = its deltaMs
C10_StopEntryInvariant ==
    \A e \in BagToSet(time_entries) :
        IF e.timer # 0
        THEN /\ e.ended_at >= e.started_at
             /\ e.duration_ms = e.ended_at - e.started_at
        ELSE /\ e.started_at = e.ended_at
             /\ e.duration_ms \in Deltas

\* the store holds an entry of a stop after some time and an adjustment
C10_Witness ==
    /\ \E e \in BagToSet(time_entries) : e.timer # 0 /\ e.duration_ms > 0
    /\ \E e \in BagToSet(time_entries) : e.timer = 0

\* C6: the first setEstimate of a pair inserts the estimate and no history
\* row; a later one with a different value, made less than 2 minutes after
\* the estimate's updated_at, sets the value and adds no history row; made
\* 2 minutes or more after it, it adds exactly one history row (previous_ms
\* the stored value, new_ms the new one) and sets the value.  For an
\* estimate updated at T0, a different value at T0 + 90 s and yet another
\* 3 min later leave exactly one history row, previous_ms the second value
C6_GraceRule ==
    /\ Returned("setEstimate") =>
        LET cur == RowsOf(time_estimates, LastCall.card, LastCall.member)
        IN IF ~LastCall.was
           THEN /\ estimate_history = snap.estimate_history
                /\ \E e \in cur : cur = {e} /\ e.estimated_ms = LastCall.val
                /\ time_estimates \ cur = snap.time_estimates
           ELSE (SnapEstimate.estimated_ms # LastCall.val) =>
                /\ \E e \in cur :
                        /\ cur = {e}
                        /\ e.estimated_ms = LastCall.val
                        /\ e.id = SnapEstimate.id
                /\ IF LastCall.at - SnapEstimate.updated_at < 2 * 60 * 1000
                   THEN estimate_history = snap.estimate_history
                   ELSE \E h \in BagToSet(estimate_history) :
                        /\ estimate_history =
                               snap.estimate_history (+) SetToBag({h})
                        /\ h.estimate_id = SnapEstimate.id
                        /\ h.previous_ms = SnapEstimate.estimated_ms
                        /\ h.new_ms = LastCall.val
    /\ (AllIdle /\ Len(last) = 3
            /\ last[1].op = "setEstimate" /\ last[2].op = "setEstimate"
            /\ last[3].op = "setEstimate"
            /\ last[2].val # last[1].val
            /\ last[3].val # last[2].val /\ last[3].val # last[1].val
            /\ last[2].at = last[2].seen + 90 * 1000
            /\ last[3].at = last[2].at + 3 * 60 * 1000) =>
            \E h \in BagToSet(estimate_history) :
                /\ BagRowsOf(estimate_history, last[1].card, last[1].member)
                       = SetToBag({h})
                /\ h.previous_ms = last[2].val

\* the scenario has happened: an estimate set, changed 90 s after its
\* update and changed again 3 min later
C6_Witness ==
    /\ AllIdle /\ Len(last) = 3
    /\ last[1].op = "setEstimate" /\ last[2].op = "setEstimate"
    /\ last[3].op = "setEstimate"
    /\ last[2].val # last[1].val
    /\ last[3].val # last[2].val /\ last[3].val # last[1].val
    /\ last[2].at = last[2].seen + 90 * 1000
    /\ last[3].at = last[2].at + 3 * 60 * 1000

\* C7 (as claimed): setEstimate with the value the estimate already has
\* adds no history row and leaves the estimate row, updated_at included,
\* as it was
C7_EqualValueNoOp ==
    (Returned("setEstimate") /\ LastCall.was
        /\ SnapEstimate.estimated_ms = LastCall.val) =>
        /\ estimate_history = snap.estimate_history
        /\ time_estimates = snap.time_estimates

\* C11: adjustTime adds exactly one entry for the target member, with
\* started_at = ended_at = the date's noon or the current time and
\* duration_ms = deltaMs as given, and changes no other row; the member's
\* totalMs of getCardTimeData grows by deltaMs, also below zero
C11_AdjustEffect ==
    Returned("adjustTime") =>
        LET c == LastCall.card
            m == LastCall.member
        IN /\ time_entries = snap.time_entries (+) SetToBag(
                  {[card_id |-> c, member_id |-> m,
                    started_at |-> LastCall.at, ended_at |-> LastCall.at,
                    duration_ms |-> LastCall.val, timer |-> 0]})
           /\ LastCall.at \in DateNoons \/ LastCall.at <= now
           /\ active_timers = snap.active_timers
           /\ time_estimates = snap.time_estimates
           /\ estimate_history = snap.estimate_history
           /\ CardTimeData(time_entries, active_timers, c)[m].totalMs =
                  CardTimeData(snap.time_entries, snap.active_timers, c)[m].totalMs
                  + LastCall.val

\* an adjustTime with a negative deltaMs has returned and the member's
\* stored total is negative
C11_Witness ==
    /\ Returned("adjustTime") /\ LastCall.val < 0
    /\ CardTimeData(time_entries, active_timers, LastCall.card)
           [LastCall.member].totalMs < 0

\* C12: clearCardTime of card X removes every entry and every timer of X
\* and leaves every entry and timer of the other cards, and every
\* estimate and history row (also those of X), as they were
C12_ResetEffect ==
    Returned("clearCardTime") =>
        LET x == LastCall.card
        IN /\ \A e \in BagToSet(time_entries) : e.card_id # x
           /\ \A r \in active_timers : r.card_id # x
           /\ BagToSet(time_entries) \subseteq BagToSet(snap.time_entries)
           /\ \A e \in BagToSet(snap.time_entries) :
                  e.card_id # x =>
                      CopiesIn(e, time_entries) = CopiesIn(e, snap.time_entries)
           /\ active_timers \subseteq snap.active_timers
           /\ \A r \in snap.active_timers : r.card_id # x => r \in active_timers
           /\ time_estimates = snap.time_estimates
           /\ estimate_history = snap.estimate_history

\* a reset of a card with an entry and a timer has returned, and another
\* card had an entry or a timer
C12_Witness ==
    /\ Returned("clearCardTime")
    /\ \E e \in BagToSet(snap.time_entries) : e.card_id = LastCall.card
    /\ \E r \in snap.active_timers : r.card_id = LastCall.card
    /\ \/ \E e \in BagToSet(snap.time_entries) : e.card_id # LastCall.card
       \/ \E r \in snap.active_timers : r.card_id # LastCall.card

\* C13: a board report computed right after clearCardTime of card X: the
\* time report has no card X, and in no grouping a row or a contribution
\* of X; the estimate report still has X, with actualMs = 0, when an
\* estimate with estimated_ms > 0 of X exists
C13_ReportAfterReset ==
    (AllIdle /\ Len(last) = 2 /\ last[1].op = "clearCardTime") =>
        LET x == last[1].card
            rep == last[2].ret
        IN IF last[2].op = "getBoardTimeReport"
           THEN /\ x \notin DOMAIN rep
                /\ x \notin DOMAIN TimeRows(rep, "card", now)
                /\ \A k \in TimeContributions(rep, now) : k.card # x
           ELSE (\E e \in time_estimates :
                        e.card_id = x /\ e.estimated_ms > 0) =>
                /\ x \in DOMAIN rep
                /\ x \in DOMAIN EstRows(rep, "card", now)
                /\ EstRows(rep, "card", now)[x].actualMs = 0
                /\ \A z \in EstContributions(rep, now) :
                       z.card = x => z.actual = 0

\* card X had time and was reset, X has an estimate, and the estimate
\* report that followed has X
C13_Witness ==
    /\ AllIdle /\ Len(last) = 2
    /\ last[1].op = "clearCardTime" /\ last[1].was
    /\ last[2].op = "getBoardEstimateReport"
    /\ last[1].card \in DOMAIN last[2].ret

\* C14: under any interleaving of setEstimate and removeEstimate calls of
\* concurrent sessions, also when two sessions set the first estimate of
\* one pair at the same time, there is at most one time_estimates row per
\* (card, member) pair
C14_OneEstimatePerPair ==
    \A c \in Cards, m \in Members :
        Cardinality(RowsOf(time_estimates, c, m)) <= 1

\* two sessions found no estimate for the pair; the insert of one is
\* stored and the insert of the other is about to be executed
C14_Witness ==
    \E s \in Sessions :
        /\ sess[s].pc = "est_insert"
        /\ HasRow(time_estimates, sess[s].card, sess[s].member)

\* C15: after any sequence or interleaving of setEstimate, removeEstimate
\* and clearCardEstimates every estimate_history row references a
\* time_estimates row that exists: removing an estimate removes all of
\* its history rows
C15_NoOrphanHistory ==
    \A h \in BagToSet(estimate_history) :
        \E e \in time_estimates :
            /\ e.id = h.estimate_id
            /\ e.card_id = h.card_id
            /\ e.member_id = h.member_id

\* a removeEstimate or clearCardEstimates returned whose estimate had a
\* history row when the call began
C15_Witness ==
    /\ Len(last) = 1
    /\ last[1].op \in {"removeEstimate", "clearCardEstimates"}
    /\ last[1].was

ScenarioReported ==
    /\ Returned("getBoardEstimateReport")
    /\ \E e \in RowsOf(time_estimates, 1, 1) :
          e.estimated_ms = 120 * MinuteMs
    /\ SumDur(BagRowsOf(time_entries, 1, 1)) = 150 * MinuteMs
    /\ \E r \in RowsOf(active_timers, 1, 1) :
          r.started_at = now - 10 * MinuteMs
    /\ \A m \in BoardMembers \ {1} :
          /\ ~HasRow(time_estimates, 1, m)
          /\ ~HasRow(active_timers, 1, m)
          /\ BagRowsOf(time_entries, 1, m) = EmptyBag

\* C17 (as claimed): in the end-to-end scenario the report grouped by
\* card shows for X estimatedMs = 7,200,000, actualMs = 9,600,000,
\* remainingMs = 0, deviationMs = 2,400,000, deviationPct = +20% and
\* accuracy = 80%
C17_ScenarioAsClaimed ==
    ScenarioReported =>
        /\ 1 \in DOMAIN EstRows(LastCall.ret, "card", now)
        /\ LET row == EstRows(LastCall.ret, "card", now)[1]
           IN /\ row.estimatedMs = 7200000
              /\ row.actualMs = 9600000
              /\ row.remainingMs = 0
              /\ row.deviationMs = 2400000
              /\ ~row.deviationPct.null
              /\ row.deviationPct.num = 20 * row.deviationPct.den
              /\ ~row.accuracy.null
              /\ row.accuracy.num = 80 * row.accuracy.den

\* C17 (amended): in the end-to-end scenario the report grouped by card
\* shows for X estimatedMs = 7,200,000, actualMs = 9,600,000,
\* remainingMs = 0, deviationMs = 2,400,000, deviationPct = +33 1/3 %
\* (2,400,000 / 7,200,000 * 100) and accuracy = 66 2/3 %
C17_Scenario ==
    ScenarioReported =>
        /\ 1 \in DOMAIN EstRows(LastCall.ret, "card", now)
        /\ LET row == EstRows(LastCall.ret, "card", now)[1]
           IN /\ row.estimatedMs = 7200000
              /\ row.actualMs = 9600000
              /\ row.remainingMs = 0
              /\ row.deviationMs = 2400000
              /\ ~row.deviationPct.null
              /\ 3 * row.deviationPct.num = 100 * row.deviationPct.den
              /\ ~row.accuracy.null
              /\ 3 * row.accuracy.num = 200 * row.accuracy.den

\* the report of the end-to-end scenario was returned
C17_Witness == ScenarioReported /\ LastCall.ret # << >>

\* C18: every row of the estimate report, in every grouping and also
\* when it aggregates several members, has remainingMs = max(0,
\* estimatedMs - actualMs) and deviationMs = actualMs - estimatedMs of the
\* row's own sums
C18_RowRemainingOfSums ==
    Returned("getBoardEstimateReport") =>
        \A g \in GroupBys :
            LET rows == EstRows(LastCall.ret, g, now)
            IN \A k \in DOMAIN rows :
                  /\ rows[k].remainingMs =
                        (IF rows[k].estimatedMs - rows[k].actualMs > 0
                         THEN rows[k].estimatedMs - rows[k].actualMs ELSE 0)
                  /\ rows[k].deviationMs =
                        rows[k].actualMs - rows[k].estimatedMs

\* C19: every row of the estimate report with estimatedMs > 0 has 0 <=
\* accuracy <= 100, and accuracy = 100 exactly when actualMs =
\* estimatedMs; a row with estimatedMs = 0 has accuracy and deviationPct
\* null
C19_AccuracyBounds ==
    Returned("getBoardEstimateReport") =>
        \A g \in GroupBys :
            LET rows == EstRows(LastCall.ret, g, now)
            IN \A k \in DOMAIN rows :
                  LET row == rows[k]
                  IN /\ row.estimatedMs > 0 =>
                          /\ ~row.accuracy.null
                          /\ row.accuracy.den > 0
                          /\ 0 <= row.accuracy.num
                          /\ row.accuracy.num <= 100 * row.accuracy.den
                          /\ (row.accuracy.num = 100 * row.accuracy.den)
                                = (row.actualMs = row.estimatedMs)
                     /\ row.estimatedMs = 0 =>
                          row.accuracy.null /\ row.deviationPct.null

\* the report has a row whose actual time is negative, a row whose actual
\* time is the estimate, and a row without estimate
C19_Witness ==
    /\ Returned("getBoardEstimateReport")
    /\ \E g \in GroupBys :
          \E k \in DOMAIN EstRows(LastCall.ret, g, now) :
              /\ EstRows(LastCall.ret, g, now)[k].estimatedMs > 0
              /\ EstRows(LastCall.ret, g, now)[k].actualMs < 0
    /\ \E g \in GroupBys :
          \E k \in DOMAIN EstRows(LastCall.ret, g, now) :
              /\ EstRows(LastCall.ret, g, now)[k].estimatedMs > 0
              /\ EstRows(LastCall.ret, g, now)[k].actualMs =
                    EstRows(LastCall.ret, g, now)[k].estimatedMs
    /\ \E g \in GroupBys :
          \E k \in DOMAIN EstRows(LastCall.ret, g, now) :
              EstRows(LastCall.ret, g, now)[k].estimatedMs = 0

\* C20: when grouping by label, each label row's actual time is the sum
\* of the full live totals of all cards of the report that carry the
\* label: a card with k distinct labels adds its full total to each of its
\* k label rows, and a card without label adds it to the "Uten label" row
\* only (so the label rows can add up to more than the card rows)
C20_LabelFanOut ==
    (Returned("getBoardTimeReport") \/ Returned("getBoardEstimateReport")) =>
        LET rep == LastCall.ret
            time == LastCall.op = "getBoardTimeReport"
            \* the full live total of a card, from the store
            Live(c) ==
                SumMs({[member |-> m,
                        ms |-> SumDur(BagRowsOf(time_entries, c, m)) +
                               SumMs({[id |-> r.id, ms |-> now - r.started_at] :
                                        r \in RowsOf(active_timers, c, m)})] :
                          m \in BoardMembers})
            Carry(k) ==
                {c \in DOMAIN rep :
                    IF k = "Uten label" THEN rep[c].labels = {}
                    ELSE k \in rep[c].labels}
            Expected(k) == SumMs({[card |-> c, ms |-> Live(c)] : c \in Carry(k)})
            rows == IF time THEN TimeRows(rep, "label", now)
                    ELSE [k \in DOMAIN EstRows(rep, "label", now) |->
                            EstRows(rep, "label", now)[k].actualMs]
        IN /\ \A k \in DOMAIN rows : rows[k] = Expected(k)
           /\ \A c \in DOMAIN rep :
                 Live(c) # 0 =>
                    /\ rep[c].labels \subseteq DOMAIN rows
                    /\ rep[c].labels = {} => "Uten label" \in DOMAIN rows

\* a report was returned in which a card with 60 minutes and more has two
\* labels and a card without label has time too: each of the two label
\* rows shows the card's full total, and the label rows add up to more
\* than the card rows
C20_Witness ==
    /\ Returned("getBoardTimeReport")
    /\ DOMAIN LastCall.ret = {1, 2}
    /\ LastCall.ret[1].labels = {"bug", "ui"}
    /\ LastCall.ret[2].labels = {}
    /\ LET rows == TimeRows(LastCall.ret, "label", now)
           cards == TimeRows(LastCall.ret, "card", now)
       IN /\ DOMAIN rows = {"bug", "ui", "Uten label"}
          /\ rows["bug"] >= 60 * MinuteMs
          /\ rows["ui"] = rows["bug"]
          /\ rows["bug"] + rows["ui"] + rows["Uten label"]
                > cards[1] + cards[2]

\* C21: in the time report grouped by card a card has a row exactly when
\* its live total (the completed durations of all its members plus the
\* elapsed time of their running timers) is not 0; no row has total 0
C21_RowIffLiveTotal ==
    Returned("getBoardTimeReport") =>
        LET rows == TimeRows(LastCall.ret, "card", now)
            Live(c) ==
                SumMs({[member |-> m,
                        ms |-> SumDur(BagRowsOf(time_entries, c, m)) +
                               SumMs({[id |-> r.id, ms |-> now - r.started_at] :
                                        r \in RowsOf(active_timers, c, m)})] :
                          m \in BoardMembers})
        IN \A c \in BoardCards :
              /\ (c \in DOMAIN rows) = (Live(c) # 0)
              /\ c \in DOMAIN rows => rows[c] # 0

\* C22: a card is returned by the estimate report exactly when at least
\* one of its members has estimatedMs > 0 (a card with tracked time only,
\* or with estimates of 0 only, is not returned), and a returned card
\* carries the actual time of all its members, also of those without
\* estimate
C22_EstimateFilter ==
    Returned("getBoardEstimateReport") =>
        \A c \in BoardCards :
            /\ (c \in DOMAIN LastCall.ret) =
                  (\E e \in time_estimates :
                      e.card_id = c /\ e.estimated_ms > 0)
            /\ c \in DOMAIN LastCall.ret =>
                  \A m \in BoardMembers :
                      /\ LastCall.ret[c].members[m].actualMs =
                            SumDur(BagRowsOf(time_entries, c, m))
                      /\ (LastCall.ret[c].members[m].activeStart # 0)
                            = HasRow(active_timers, c, m)
                      /\ \A r \in RowsOf(active_timers, c, m) :
                            LastCall.ret[c].members[m].activeStart = r.started_at

\* the report returned card 1, where a member without estimate has time,
\* and not card 2, whose only estimate is 0
C22_Witness ==
    /\ Returned("getBoardEstimateReport")
    /\ DOMAIN LastCall.ret = {1}
    /\ ~HasRow(time_estimates, 1, 2)
    /\ LastCall.ret[1].members[2].actualMs > 0
    /\ \E e \in time_estimates : e.card_id = 2 /\ e.estimated_ms = 0

\* C23: in both board reports a completed entry of the board contributes
\* exactly when from <= started_at <= to, where a bound that is not given
\* is unbounded; every active timer of the board contributes whatever the
\* date filter is
C23_DateFilter ==
    (Returned("getBoardTimeReport") \/ Returned("getBoardEstimateReport")) =>
        LET rep == LastCall.ret
            InRange(c, m) ==
                LET D == {r \in BagToSet(time_entries) :
                             /\ r.card_id = c /\ r.member_id = m
                             /\ LastCall.from = 0 \/ LastCall.from <= r.started_at
                             /\ LastCall.to = 0 \/ r.started_at <= LastCall.to}
                IN SumDur([r \in D |-> time_entries[r]])
            returned(c) ==
                IF LastCall.op = "getBoardTimeReport"
                THEN InRange(c, 1) # 0 \/ InRange(c, 2) # 0
                     \/ \E r \in active_timers : r.card_id = c
                ELSE \E e \in time_estimates : e.card_id = c
        IN \A c \in BoardCards :
              /\ (c \in DOMAIN rep) = returned(c)
              /\ c \in DOMAIN rep =>
                    \A m \in BoardMembers :
                        LET data == IF LastCall.op = "getBoardTimeReport"
                                    THEN [completed |-> rep[c].timeData[m].totalMs,
                                          start |-> rep[c].timeData[m].activeStart]
                                    ELSE [completed |-> rep[c].members[m].actualMs,
                                          start |-> rep[c].members[m].activeStart]
                        IN /\ data.completed = InRange(c, m)
                           /\ (data.start # 0) = HasRow(active_timers, c, m)
                           /\ \A r \in RowsOf(active_timers, c, m) :
                                 data.start = r.started_at

\* a report with a lower bound was returned for a card that has an entry
\* before the bound, an entry at the bound and a timer started before it
C23_Witness ==
    /\ Returned("getBoardTimeReport")
    /\ LastCall.from = Epoch + TickMs
    /\ 1 \in DOMAIN LastCall.ret
    /\ \E r \in BagToSet(time_entries) :
          r.card_id = 1 /\ r.started_at < LastCall.from
    /\ \E r \in BagToSet(time_entries) :
          r.card_id = 1 /\ r.started_at = LastCall.from
    /\ \E r \in active_timers :
          r.card_id = 1 /\ r.started_at < LastCall.from
    /\ LastCall.ret[1].timeData[1].totalMs = TickMs

\* C24: a row's originalMs is the sum of originalMs over exactly the
\* contributing members whose originalMs is not null, and it is null if
\* and only if no contributing member has one
C24_RowOriginalOfNonNull ==
    Returned("getBoardEstimateReport") =>
        \A g \in GroupBys :
            LET rep == LastCall.ret
                rows == EstRows(rep, g, now)
                \* the members a row is made of, from the report
                Of(k) == {<<c, m>> \in (DOMAIN rep) \X BoardMembers :
                            /\ \/ rep[c].members[m].estimatedMs # 0
                               \/ GetActualMs(rep[c].members[m], now) # 0
                            /\ \/ g = "card" /\ k = c
                               \/ g = "person" /\ k = m
                               \/ g = "label" /\ k \in LabelKeys(rep[c].labels)}
                WithOriginal(k) ==
                    {p \in Of(k) : rep[p[1]].members[p[2]].originalMs # Null}
            IN \A k \in DOMAIN rows :
                  /\ (rows[k].originalMs = Null) = (WithOriginal(k) = {})
                  /\ WithOriginal(k) # {} =>
                        rows[k].originalMs =
                            SumMs({[pair |-> p,
                                    ms |-> rep[p[1]].members[p[2]].originalMs] :
                                      p \in WithOriginal(k)})

\* the report has a row of a member with and a member without originalMs,
\* and a row whose members have none
C24_Witness ==
    /\ Returned("getBoardEstimateReport")
    /\ \E c \in DOMAIN LastCall.ret :
          /\ \E m \in BoardMembers :
                /\ LastCall.ret[c].members[m].estimatedMs > 0
                /\ LastCall.ret[c].members[m].originalMs = Null
          /\ \E m \in BoardMembers :
                /\ LastCall.ret[c].members[m].estimatedMs > 0
                /\ LastCall.ret[c].members[m].originalMs > 0
          /\ EstRows(LastCall.ret, "card", now)[c].originalMs > 0
    /\ \E k \in DOMAIN EstRows(LastCall.ret, "person", now) :
          EstRows(LastCall.ret, "person", now)[k].originalMs = Null
\* C25: when a fetch of a board report fails (completed entries, active
\* timers, estimates or estimate history), the report aborts with an
\* error and returns no result, and the load shows the error state
C25_FetchFailureAborts ==
    (Returned("getBoardTimeReport") \/ Returned("getBoardEstimateReport")) =>
        (LastCall.failed # "none" => LastCall.threw /\ LoadError(LastCall))
\* C26: when the insert, update or delete issued by startTimer,
\* stopTimer, adjustTime, setEstimate or removeEstimate fails, the call
\* does not complete normally: the failure is propagated to the caller
C26_WriteFailurePropagates ==
    \A op \in {"startTimer", "stopTimer", "adjustTime", "setEstimate",
                "removeEstimate"} :
        Returned(op) => (LastCall.failed # "none" => LastCall.threw)
\* C27: when the insert of a startTimer is rejected by the uniqueness
\* constraint because another session's insert for the pair came first,
\* the losing startTimer returns without throwing, the pair is running
\* with the winner's timer and started_at unchanged, and no completed
\* entry is created
C27_DuplicateInsertBenign ==
    [][\A s \in Sessions :
          (/\ sess[s].pc = "start_insert"
           /\ UniqueViolation(sess[s].card, sess[s].member)
           /\ sess'[s].pc # "start_insert") =>
              /\ sess'[s].pc = "idle"
              /\ ~last'[Len(last')].threw
              /\ RowsOf(active_timers', sess[s].card, sess[s].member) =
                    RowsOf(active_timers, sess[s].card, sess[s].member)
              /\ HasRow(active_timers', sess[s].card, sess[s].member)
              /\ time_entries' = time_entries]_vars

\* a startTimer whose insert was rejected has returned while the pair's
\* timer, started earlier by the other session, runs
C27_Witness ==
    /\ Returned("startTimer")
    /\ LastCall.failed = "duplicate"
    /\ \E r \in RowsOf(active_timers, LastCall.card, LastCall.member) :
          r.started_at < LastCall.at
\* C28: for every input string whose parsed duration is 0 the estimate
\* handler and the manual add and subtract handlers call no store
\* function (no read, no write) and leave the store as it was
C28_InvalidInputRejected ==
    /\ \A s \in Sessions : sess[s].pc # "idle" => sess[s].val # 0
    /\ \A h \in Handlers :
          Returned(h) =>
              /\ LastCall.val = 0
              /\ Snapshot = snap

\* the estimate handler returned on an input without duration while the
\* pair has an estimate and an entry
C28_Witness ==
    /\ Returned("handleSetEstimate")
    /\ HasRow(time_estimates, LastCall.card, LastCall.member)
    /\ time_entries # EmptyBag
\* C29: while the view is mounted and visible its interval is set and
\* every tick of it issues a re-fetch; when the view becomes visible
\* again a re-fetch is issued at once and polling starts again; no
\* re-fetch is issued while the view is hidden, and none after unmount
\* (no interval stays set)
C29_PollingProtocol ==
    [][/\ (view'.mounted /\ view'.visible) => view'.live = 1
       /\ (view'.event = "tick" /\ view.mounted /\ view.visible) =>
              view'.fetches = view.fetches + 1
       /\ (view'.event = "visible" /\ view.mounted) =>
              /\ view'.fetches = view.fetches + 1
              /\ view'.pollRef = "live"
       /\ view'.fetches # view.fetches =>
              view.mounted /\ view'.mounted /\ view'.visible
       /\ ~view'.mounted => view'.live = 0]_vars

\* the view was hidden and is visible again after ticks that fetched
C29_Witness ==
    /\ view.mounted
    /\ view.event = "visible"
    /\ view.fetches > 2
\* C30: for every duration d >= 0, parseDuration(formatDuration(d)) in
\* long form is floor(d / 1000) * 1000, and so differs from d by less
\* than 1000 ms
C30_RoundTrip ==
    (Len(last) = 2 /\ last[2].op = "parseDuration") =>
        /\ last[2].ret = (last[1].val \div 1000) * 1000
        /\ last[1].val - last[2].ret >= 0
        /\ last[1].val - last[2].ret < 1000

\* a duration with hours, minutes, seconds and a rest went through both
\* functions, and so did 0
C30_Witness ==
    /\ Len(last) = 2
    /\ last[2].op = "parseDuration"
    /\ last[1].val = 12 * HourMs + 59 * MinuteMs + 10 * SecondMs + 999
    /\ last[1].ret = <<"1", "2", "t", " ", "5", "9", "m", " ", "1", "0", "s">>
    /\ last[2].ret = 12 * HourMs + 59 * MinuteMs + 10 * SecondMs
\* C31 (as claimed): when start/stop is pressed with another board
\* member M selected, the timer that is created or stopped and the entry
\* that is written belong to M: the rows of the current user are as they
\* were, M runs after a start and does not run after a stop
C31_ToggleActsOnSelected ==
    \A op \in {"startTimer", "stopTimer"} :
        (/\ Returned(op)
         /\ LastCall.sel \in BoardMembers
         /\ LastCall.sel # LastCall.user) =>
            /\ RowsOf(active_timers, LastCall.card, LastCall.user) =
                  RowsOf(snap.active_timers, LastCall.card, LastCall.user)
            /\ BagRowsOf(time_entries, LastCall.card, LastCall.user) =
                  BagRowsOf(snap.time_entries, LastCall.card, LastCall.user)
            /\ HasRow(active_timers, LastCall.card, LastCall.sel) =
                  (op = "startTimer")
\* C35 (as claimed): every store call of the popup is for a selected
\* member that resolves, the current user for "self" and the member with
\* the selected id otherwise; a selected id that is not found among the
\* board's members produces no call
C35_OnlySelectedTargets ==
    \A s \in Sessions :
        (sess[s].pc # "idle" /\ sess[s].sel # Null) =>
            /\ sess[s].resolved
            /\ sess[s].member =
                  IF sess[s].sel = Self THEN sess[s].user ELSE sess[s].sel
\* C32 (as claimed): a setEstimate outside the grace period whose history
\* insert failed leaves the estimate of the pair at its previous value
C32_NoChangeWithoutHistory ==
    (Returned("setEstimate") /\ LastCall.failed = "history") =>
        {r.estimated_ms : r \in RowsOf(time_estimates, LastCall.card,
                                       LastCall.member)} =
          {r.estimated_ms : r \in RowsOf(snap.time_estimates, LastCall.card,
                                         LastCall.member)}
\* how often the view built from the answers of a getCardTimeData counts
\* the interval of the timer row r: through activeStart when the row is
\* among the timers read, through totalMs once for every entry read that
\* was made from the row
TimesCounted(answers, r) ==
    (IF r \in answers.actives THEN 1 ELSE 0)
      + BagCardinality([e \in {x \in BagToSet(answers.entries) :
                                  x.timer = r.id} |-> answers.entries[e]])

\* C33 (as claimed): whatever the interleaving of a stopTimer with a
\* getCardTimeData of another session, the returned view counts the
\* interval of a timer that ran when the read began exactly once: as the
\* running timer or as its completed entry, never both and never neither
C33_StoppingIntervalOnce ==
    Returned("getCardTimeData") =>
        \A r \in snap.active_timers :
            r.card_id = LastCall.card => TimesCounted(LastCall.ret, r) = 1
C36_ResetWinsOverStop ==
    Returned("clearCardTime") =>
        /\ \A e \in BagToSet(time_entries) : e.card_id # LastCall.card
        /\ \A r \in active_timers : r.card_id # LastCall.card
RowTotal(rows, Column(_)) ==
    SumMs({[key |-> k, ms |-> Column(rows[k])] : k \in DOMAIN rows})

\* C38: for the same report data and instant the rows grouped by item and
\* the rows grouped by person have the same sum of actualMs and of
\* estimatedMs in the estimate report and the same sum of totalMs in the
\* time report
C38_GroupingPreservesSums ==
    LET Actual(row) == row.actualMs
        Estimated(row) == row.estimatedMs
        Total(ms) == ms
    IN /\ Returned("getBoardEstimateReport") =>
            LET byCard == EstRows(LastCall.ret, "card", now)
                byPerson == EstRows(LastCall.ret, "person", now)
            IN /\ RowTotal(byCard, Actual) = RowTotal(byPerson, Actual)
               /\ RowTotal(byCard, Estimated) = RowTotal(byPerson, Estimated)
       /\ Returned("getBoardTimeReport") =>
            RowTotal(TimeRows(LastCall.ret, "card", now), Total) =
              RowTotal(TimeRows(LastCall.ret, "person", now), Total)

\* an estimate report and a time report in which a person has time on two
\* items and an item has time of two persons
C38_Witness ==
    /\ \/ Returned("getBoardEstimateReport")
       \/ Returned("getBoardTimeReport")
    /\ LET contrib == IF LastCall.op = "getBoardEstimateReport"
                      THEN {[card |-> x.card, member |-> x.member] :
                              x \in EstContributions(LastCall.ret, now)}
                      ELSE {[card |-> x.card, member |-> x.member] :
                              x \in TimeContributions(LastCall.ret, now)}
       IN /\ \E x, y \in contrib : x.card # y.card /\ x.member = y.member
          /\ \E x, y \in contrib : x.card = y.card /\ x.member # y.member
\* C39: a resetCardTimeById is invoked only by the confirm button of the
\* reset dialog that was opened for its card, a stopActiveTimersByIds only
\* by the confirm button of the stop dialog that was opened for its
\* timers, only these calls reset a card or stop timers by id, and
\* opening or cancelling a dialog leaves the store and the calls as they
\* are
C39_ConfirmedOnly ==
    [][/\ \A s \in Sessions :
            /\ (sess[s].pc = "idle" /\ sess'[s].top = "resetCardTimeById") =>
                  /\ view.confirmReset = sess'[s].card
                  /\ view'.event = "confirm_reset"
            /\ (sess[s].pc = "idle" /\ sess'[s].top = "stopActiveTimersByIds") =>
                  /\ view.confirmStop.open
                  /\ view.confirmStop.timerIds = sess'[s].got
                  /\ view'.event = "confirm_stop"
       /\ (view' # view /\ view'.event \in {"reset_done", "stop_done"}) =>
            \E s \in Sessions :
                sess[s].top \in {"resetCardTimeById", "stopActiveTimersByIds"}
       /\ (/\ view' # view
           /\ view'.event \in {"open_reset", "cancel_reset", "open_stop",
                                "cancel_stop"}) =>
            UNCHANGED <<active_timers, time_entries, time_estimates,
                        estimate_history, sess>>]_vars

\* a card with time was reset and a timer was stopped from the report,
\* each after its dialog was opened and confirmed
C39_Witness ==
    /\ AllIdle /\ Len(last) > 0
    /\ \/ /\ LastCall.op = "resetCardTimeById"
          /\ \E e \in BagToSet(snap.time_entries) : e.card_id = LastCall.card
          /\ \A e \in BagToSet(time_entries) : e.card_id # LastCall.card
          /\ time_entries # EmptyBag
       \/ /\ LastCall.op = "stopActiveTimersByIds"
          /\ snap.active_timers # {}
          /\ active_timers # snap.active_timers
\* C40: after every step a mounted timer view has a tick interval set
\* exactly when the timeData it loaded last has a member with activeStart,
\* never more than one interval is set, and a tick that fires changes the
\* local clock only: no store call is issued and the store is untouched
C40_LiveTick ==
    [][/\ view'.mounted => /\ (view'.ticks > 0) = view'.hasActive
                           /\ view'.ticks <= 1
       /\ view'.ticks \in {0, 1}
       /\ (view'.event = "clock" /\ view' # view) =>
            /\ [view' EXCEPT !.clock = view.clock, !.event = view.event] = view
            /\ UNCHANGED <<active_timers, time_entries, time_estimates,
                           estimate_history, sess>>]_vars

\* a mounted view that loaded a running timer and whose tick moved the
\* local clock past the instant of the load, and a view that loaded again
\* while its tick was set
C40_Witness ==
    /\ view.mounted /\ view.hasActive /\ view.ticks = 1
    /\ view.event = "clock"
    /\ view.fetches >= 2
    /\ view.clock > Epoch
====
